---- MODULE Spec2Model ----
(***************************************************************************)
(* Behavioural-inference pipeline of design-system-cli: the Screen         *)
(* Segmenter and Flow Assembler (functional-flows/src/flows.ts), the       *)
(* Entity Resolver (functional-entities/src/entities.ts) and the Rule      *)
(* Extractor (functional-rules extractRules).                              *)
(*                                                                         *)
(* JavaScript strings are sequences of one-character strings, so that the  *)
(* regular expressions, splits and case conversions of the source are      *)
(* computed character by character.  The empty sequence << >> stands for   *)
(* both the empty string and an absent (undefined) property: the source    *)
(* only ever tests such properties for truthiness.                         *)
(***************************************************************************)
EXTENDS Integers, Sequences, FiniteSets, TLC

VARIABLES
  stage,            \* which stage function runs: "flows", "entities", "rules"
  files,            \* the files at config.tracePath, flowsPath, entitiesPath
  git,              \* runGitWorkflow: options, repository, commands issued, result
  recorder,         \* trace recorder: events array and the requests in flight
  pc,               \* position inside the stage function
  trace,            \* TraceOutput read from config.tracePath
  config,           \* FlowsConfig thresholds (0 = not set)
  si, ei,           \* loop positions: session index, event index
  screenMap,        \* extractScreens: Map<screenId, Screen>
  currentUrl,       \* extractScreens / extractFlows: let currentUrl
  actions,          \* extractScreens: const actions (per session)
  screens,          \* result of extractScreens, handed to extractFlows
  flowList,         \* extractFlows: const flows
  currentScreenId,  \* extractFlows: let currentScreenId
  flowSteps,        \* extractFlows: let flowSteps
  flowStartTime,    \* extractFlows: let flowStartTime
  stepEvents,       \* history: positions (in the session) of the events behind flowSteps
  flowEvents,       \* history: per emitted flow, its session, navigate and step events
  entityMap,        \* entities: Map<entityName, entityData>
  observed,         \* history: the events the entities loop has read so far
  rulesIn,          \* extractRules: RulesInputs (entities, flows)
  machines,         \* extractStateMachines: const machines
  output,           \* files written by the stage (<< >> fields until written)
  result            \* the stage's result record

vars == <<stage, files, git, recorder, pc, trace, config, si, ei, screenMap, currentUrl, actions,
          screens, flowList, currentScreenId, flowSteps, flowStartTime,
          stepEvents, flowEvents, entityMap, observed, rulesIn, machines, output,
          result>>

(***************************************************************************)
(* Bounds of the model                                                     *)
(***************************************************************************)
MaxItems == 3       \* events plus session breaks in a flows-stage trace
MaxNetEvents == 6   \* events in an entities-stage trace
MaxRuleEntities == 2 \* entities in the Rule Extractor's input
MaxRuleItems == 3   \* flows plus steps in the Rule Extractor's input

(***************************************************************************)
(* String primitives                                                       *)
(***************************************************************************)
UpperAlpha == <<"A", "B", "C", "D", "E", "F", "G", "H", "I", "J", "K", "L", "M",
                "N", "O", "P", "Q", "R", "S", "T", "U", "V", "W", "X", "Y", "Z">>
LowerAlpha == <<"a", "b", "c", "d", "e", "f", "g", "h", "i", "j", "k", "l", "m",
                "n", "o", "p", "q", "r", "s", "t", "u", "v", "w", "x", "y", "z">>
DigitChars == {"0", "1", "2", "3", "4", "5", "6", "7", "8", "9"}
UpperChars == {UpperAlpha[i] : i \in 1..26}
LowerChars == {LowerAlpha[i] : i \in 1..26}
\* \w of a JavaScript regular expression
WordChars == UpperChars \cup LowerChars \cup DigitChars \cup {"_"}

ToLowerChar(c) ==
  IF c \in UpperChars THEN LowerAlpha[CHOOSE i \in 1..26 : UpperAlpha[i] = c] ELSE c

ToUpperChar(c) ==
  IF c \in LowerChars THEN UpperAlpha[CHOOSE i \in 1..26 : LowerAlpha[i] = c] ELSE c

\* String.prototype.toLowerCase
ToLowerCase(s) == [i \in 1..Len(s) |-> ToLowerChar(s[i])]

\* String.prototype.slice(n) for n >= 0
SliceFrom(s, n) == SubSeq(s, n + 1, Len(s))

\* String.prototype.slice(0, -n)
DropLast(s, n) == SubSeq(s, 1, Len(s) - n)

\* String.prototype.startsWith
StartsWith(s, p) == Len(s) >= Len(p) /\ SubSeq(s, 1, Len(p)) = p

\* String.prototype.endsWith
EndsWith(s, p) == Len(s) >= Len(p) /\ SubSeq(s, Len(s) - Len(p) + 1, Len(s)) = p

\* String.prototype.includes
Includes(s, p) == \E i \in 1..(Len(s) - Len(p) + 1) : SubSeq(s, i, i + Len(p) - 1) = p

\* Array.prototype.includes
ArrIncludes(arr, x) == \E i \in 1..Len(arr) : arr[i] = x

\* positions of s holding a character of cs
Positions(s, cs) == {i \in 1..Len(s) : s[i] \in cs}

Min(S) == CHOOSE x \in S : \A y \in S : x <= y

\* String.prototype.split with a one-character separator out of seps
RECURSIVE Split(_, _)
Split(s, seps) ==
  IF Positions(s, seps) = {} THEN <<s>>
  ELSE LET i == Min(Positions(s, seps))
       IN <<SubSeq(s, 1, i - 1)>> \o Split(SliceFrom(s, i), seps)

\* String.prototype.split with the regular expression /[seps]+/
RECURSIVE SplitRuns(_, _)
SplitRuns(s, seps) ==
  IF Positions(s, seps) = {} THEN <<s>>
  ELSE LET i == Min(Positions(s, seps))
           rest == SliceFrom(s, i)
           after == {j \in 1..Len(rest) : rest[j] \notin seps}
           tail == IF after = {} THEN << >> ELSE SliceFrom(rest, Min(after) - 1)
       IN <<SubSeq(s, 1, i - 1)>> \o SplitRuns(tail, seps)

\* Array.prototype.join
RECURSIVE Join(_, _)
Join(parts, sep) ==
  IF Len(parts) = 0 THEN << >>
  ELSE IF Len(parts) = 1 THEN parts[1]
  ELSE parts[1] \o sep \o Join(Tail(parts), sep)

(***************************************************************************)
(* new URL(url): absolute http URLs parse, anything else throws.           *)
(***************************************************************************)
HttpScheme == <<"h", "t", "t", "p", ":", "/", "/">>

\* the URL constructor accepts the string
UrlParses(url) ==
  /\ StartsWith(url, HttpScheme)
  /\ Len(url) > Len(HttpScheme)
  /\ url[Len(HttpScheme) + 1] \notin {"/", "?", "#"}

\* pathname of a URL string that parses
UrlPathname(url) ==
  LET afterScheme == SliceFrom(url, Len(HttpScheme))
      stops == Positions(afterScheme, {"?", "#"})
      noQuery == IF stops = {} THEN afterScheme
                 ELSE SubSeq(afterScheme, 1, Min(stops) - 1)
      slashes == Positions(noQuery, {"/"})
  IN IF slashes = {} THEN <<"/">> ELSE SliceFrom(noQuery, Min(slashes) - 1)

(***************************************************************************)
(* Screen ids and labels                                                   *)
(***************************************************************************)
ScreenPrefix == <<"s", "c", "r", "e", "e", "n", "-">>
ScreenLanding == ScreenPrefix \o <<"l", "a", "n", "d", "i", "n", "g">>
ScreenUnknown == ScreenPrefix \o <<"u", "n", "k", "n", "o", "w", "n">>
LandingPage == <<"L", "a", "n", "d", "i", "n", "g", " ", "P", "a", "g", "e">>
UnknownScreen == <<"U", "n", "k", "n", "o", "w", "n", " ", "S", "c", "r", "e", "e", "n">>
UnknownLabel == <<"U", "n", "k", "n", "o", "w", "n">>
\* ">" stands for the single character U+2192 (rightwards arrow)
ArrowChar == ">"
Arrow == <<" ", ArrowChar, " ">>

\* .replace(/^\//, '')
StripLeadingSlash(s) == IF Len(s) > 0 /\ s[1] = "/" THEN Tail(s) ELSE s

\* .replace(/\/$/, '')
StripTrailingSlash(s) == IF Len(s) > 0 /\ s[Len(s)] = "/" THEN DropLast(s, 1) ELSE s

\* .replace(/\//g, '-').replace(/[^a-z0-9-]/gi, '')
SlugChars(s) ==
  LET dashed == [i \in 1..Len(s) |-> IF s[i] = "/" THEN "-" ELSE s[i]]
      IsIdChar(c) == c \in UpperChars \cup LowerChars \cup DigitChars \cup {"-"}
  IN SelectSeq(dashed, IsIdChar)

generateScreenId(url) ==
  IF ~UrlParses(url) THEN ScreenUnknown
  ELSE LET pathname == UrlPathname(url)
           clean == SlugChars(StripTrailingSlash(StripLeadingSlash(pathname)))
       IN IF pathname = <<"/">> \/ pathname = << >> THEN ScreenLanding
          ELSE ScreenPrefix \o (IF clean = << >> THEN <<"r", "o", "o", "t">> ELSE clean)

\* word.charAt(0).toUpperCase() + word.slice(1)
Capitalize(word) ==
  IF word = << >> THEN << >> ELSE <<ToUpperChar(word[1])>> \o Tail(word)

generateScreenLabel(url) ==
  IF ~UrlParses(url) THEN UnknownScreen
  ELSE LET pathname == UrlPathname(url)
           NonEmpty(p) == Len(p) > 0
           segs == SelectSeq(Split(pathname, {"/"}), NonEmpty)
           Title(p) == LET words == Split(p, {"-"})
                       IN Join([i \in 1..Len(words) |-> Capitalize(words[i])], <<" ">>)
       IN IF pathname = <<"/">> \/ pathname = << >> THEN LandingPage
          ELSE Join([i \in 1..Len(segs) |-> Title(segs[i])], Arrow)

(***************************************************************************)
(* Map<K, V>: insertion-ordered entries with unique keys                   *)
(***************************************************************************)
MapHas(m, k) == \E i \in 1..Len(m) : m[i].key = k

MapIndex(m, k) == CHOOSE i \in 1..Len(m) : m[i].key = k

MapGet(m, k) == m[MapIndex(m, k)].value

MapSet(m, k, v) ==
  IF MapHas(m, k) THEN [m EXCEPT ![MapIndex(m, k)].value = v]
  ELSE Append(m, [key |-> k, value |-> v])

\* Array.from(map.values())
MapValues(m) == [i \in 1..Len(m) |-> m[i].value]

(***************************************************************************)
(* Traces of the flows stage                                               *)
(***************************************************************************)
RootUrl == HttpScheme \o <<"h", "/">>
UrlWorkspaces == HttpScheme \o <<"h", "/", "w", "o", "r", "k", "s", "p", "a", "c", "e", "s">>
UrlAB == HttpScheme \o <<"h", "/", "a", "/", "b">>
UrlADashB == HttpScheme \o <<"h", "/", "a", "-", "b">>
UrlBad == <<"b", "a", "d">>
UrlApiWidgets == HttpScheme \o <<"h", "/", "a", "p", "i", "/", "w", "i", "d", "g", "e", "t", "s">>
MethodGet == <<"G", "E", "T">>
MethodPost == <<"P", "O", "S", "T">>
MethodPut == <<"P", "U", "T">>
MethodPatch == <<"P", "A", "T", "C", "H">>
MethodDelete == <<"D", "E", "L", "E", "T", "E">>
SelectorBtn == <<"#", "b">>

\* flows.ts:134, the default maxFlowDuration in milliseconds
DefaultMaxFlowDuration == 5 * 60 * 1000
ShortGap == 1000
LongGap == DefaultMaxFlowDuration + 1
CustomMaxFlowDuration == ShortGap + 500

ClickEvent == [type |-> "click", selector |-> SelectorBtn, method |-> << >>,
               url |-> << >>, toUrl |-> << >>]
NavigateEvent(u) == [type |-> "navigate", selector |-> << >>, method |-> << >>,
                     url |-> << >>, toUrl |-> u]
NetworkEvent(m, u) == [type |-> "network", selector |-> << >>, method |-> m,
                       url |-> u, toUrl |-> << >>]
SessionBreak == [type |-> "session", selector |-> << >>, method |-> << >>,
                 url |-> << >>, toUrl |-> << >>]

FlowTemplates ==
  {ClickEvent, NetworkEvent(MethodPost, UrlApiWidgets)}
    \cup {NavigateEvent(u) : u \in {UrlWorkspaces, UrlAB, UrlADashB, UrlBad}}

\* one recorded item: an event template and the time since the previous item
FlowItems == [tpl : FlowTemplates, gap : {ShortGap, LongGap}]
               \cup {[tpl |-> SessionBreak, gap |-> ShortGap]}

\* sessions of a recording: ids are the positions in the recording (unique),
\* timestamps never decrease, a session starts no later than its events
RECURSIVE BuildSessions(_, _, _, _)
BuildSessions(items, k, time, acc) ==
  IF k > Len(items) THEN acc
  ELSE LET it == items[k]
           t == time + it.gap
           ev == [id |-> k, type |-> it.tpl.type, timestamp |-> t,
                  selector |-> it.tpl.selector, method |-> it.tpl.method,
                  url |-> it.tpl.url, toUrl |-> it.tpl.toUrl]
       IN IF it.tpl.type = "session"
          THEN BuildSessions(items, k + 1, t,
                 Append(acc, [id |-> Len(acc) + 1, startTime |-> t, events |-> << >>]))
          ELSE BuildSessions(items, k + 1, t,
                 [acc EXCEPT ![Len(acc)].events = Append(@, ev)])

BuildTrace(root, items) ==
  [meta |-> [url |-> root],
   sessions |-> BuildSessions(items, 1, 0,
                  <<[id |-> 1, startTime |-> 0, events |-> << >>]>>)]

SeqsUpTo(S, n) == UNION {[1..m -> S] : m \in 0..n}

FlowTraces == {BuildTrace(RootUrl, items) : items \in SeqsUpTo(FlowItems, MaxItems)}

\* FlowsConfig thresholds; 0 is "not set"
FlowConfigs ==
  {[minStepsForFlow |-> 0, maxFlowDuration |-> 0],
   [minStepsForFlow |-> 1, maxFlowDuration |-> CustomMaxFlowDuration],
   [minStepsForFlow |-> 3, maxFlowDuration |-> 0]}

NoOutput == [screens |-> << >>, flows |-> << >>, entities |-> << >>,
             machines |-> << >>, permissionRules |-> << >>, businessRules |-> << >>,
             written |-> FALSE]
NoResult == [returned |-> FALSE, success |-> FALSE]

\* the stage functions run without the git workflow and without the recorder
GitIdle == [pc |-> "idle"]
RecorderIdle == [events |-> << >>]

Sessions == trace.sessions
Events == Sessions[si].events

(***************************************************************************)
(* flows(): extractScreens                                                 *)
(***************************************************************************)
\* a file is missing, is not JSON, or holds the stage's input
FileStates == {"missing", "invalid", "valid"}

\* the message of the error that reading and parsing the file throws
ReadError(file) == IF file = "missing" THEN "ENOENT" ELSE "SyntaxError"

\* reading the file throws, flawed: JSON.parse accepts any text
ReadThrowsMissingOnly(file) == file = "missing"

\* JSON.parse(fs.readFileSync(path, 'utf-8')) throws
ReadThrows(file) == file # "valid"

\* the result record of the catch block of the running stage function
FailedResult(message) ==
  IF stage = "flows"
  THEN [returned |-> TRUE, success |-> FALSE, screensFound |-> 0, flowsFound |-> 0,
        errors |-> <<message>>]
  ELSE IF stage = "entities"
  THEN [returned |-> TRUE, success |-> FALSE, entitiesFound |-> 0,
        operationsFound |-> 0, errors |-> <<message>>]
  ELSE [returned |-> TRUE, success |-> FALSE, stateMachinesFound |-> 0,
        validationRulesFound |-> 0, permissionRulesFound |-> 0,
        businessRulesFound |-> 0, errors |-> <<message>>]

\* the catch block of a stage function: nothing is written
Fail(message) ==
  /\ pc' = "failed"
  /\ result' = FailedResult(message)
  /\ UNCHANGED output

\* "Load trace" of flows() and entities(): the next position is pc = next
LoadTrace(next) ==
  /\ pc = "load"
  /\ IF ReadThrows(files.trace)
     THEN Fail(ReadError(files.trace))
     ELSE pc' = next /\ UNCHANGED <<output, result>>
  /\ UNCHANGED <<stage, files, git, recorder, trace, config, si, ei, screenMap, currentUrl, actions,
                 screens, flowList, currentScreenId, flowSteps, flowStartTime,
                 stepEvents, flowEvents, entityMap, observed, rulesIn, machines>>

\* the files of a stage that reads the trace only
TraceFiles == {[trace |-> f, flows |-> "valid", entities |-> "valid"] : f \in FileStates}

EmptyTrace == [meta |-> [url |-> RootUrl], sessions |-> << >>]

\* for (const actionId of actions) if (!includes) push
RECURSIVE AddUnique(_, _)
AddUnique(list, ids) ==
  IF ids = << >> THEN list
  ELSE AddUnique(IF ArrIncludes(list, Head(ids)) THEN list ELSE Append(list, Head(ids)),
                 Tail(ids))

\* the key of screenMap, flawed: screens are filed under their pathname
ScreenKeyByPath(screenId, pathname) == pathname

\* the key of screenMap: screenMap.has(screenId), screenMap.set(screenId, ...)
ScreenKey(screenId, pathname) == screenId

\* screenMap after "Create/update screen" for URL url with the session's actions
UpsertScreen(map, url, acts) ==
  LET screenId == generateScreenId(url)
      key == ScreenKey(screenId, UrlPathname(url))
      created == IF MapHas(map, key) THEN map
                 ELSE MapSet(map, key,
                        [id |-> screenId, urlPattern |-> UrlPathname(url),
                         label |-> generateScreenLabel(url), primaryActions |-> << >>])
      screen == MapGet(created, key)
  IN MapSet(created, key,
       [screen EXCEPT !.primaryActions = AddUnique(@, acts)])

\* top of "for (const session of trace.sessions)" in extractScreens
ScreensSession ==
  /\ stage = "flows" /\ pc = "screens" /\ si <= Len(Sessions)
  /\ currentUrl' = trace.meta.url
  /\ actions' = << >>
  /\ ei' = 1
  /\ IF Len(Events) = 0
     THEN si' = si + 1 /\ pc' = "screens"
     ELSE si' = si /\ pc' = "screens-events"
  /\ UNCHANGED <<stage, files, git, recorder, trace, config, screenMap, screens, flowList, currentScreenId,
                 flowSteps, flowStartTime, stepEvents, flowEvents, entityMap,
                 observed, rulesIn, machines, output, result>>

\* one iteration of "for (const event of session.events)" in extractScreens
ScreensEvent ==
  /\ stage = "flows" /\ pc = "screens-events" /\ ei <= Len(Events)
  /\ LET event == Events[ei]
         url == IF event.type = "navigate" /\ event.toUrl # << >>
                THEN event.toUrl ELSE currentUrl
         acts == IF event.type = "click" /\ url # << >>
                 THEN Append(actions, event.id) ELSE actions
         \* new URL(currentUrl).pathname throws when a screen is created
         throws == /\ url # << >>
                   /\ ~MapHas(screenMap, generateScreenId(url))
                   /\ ~UrlParses(url)
     IN IF throws
        THEN /\ Fail("Invalid URL")
             /\ UNCHANGED <<currentUrl, actions, screenMap, si, ei>>
        ELSE /\ currentUrl' = url
             /\ actions' = acts
             /\ screenMap' = IF url # << >> THEN UpsertScreen(screenMap, url, acts)
                             ELSE screenMap
             /\ IF ei = Len(Events)
                THEN si' = si + 1 /\ ei' = 1 /\ pc' = "screens"
                ELSE si' = si /\ ei' = ei + 1 /\ pc' = "screens-events"
             /\ UNCHANGED <<output, result>>
  /\ UNCHANGED <<stage, files, git, recorder, trace, config, screens, flowList, currentScreenId,
                 flowSteps, flowStartTime, stepEvents, flowEvents, entityMap,
                 observed, rulesIn, machines>>

\* return Array.from(screenMap.values()), and the entry of extractFlows
ScreensReturn ==
  /\ stage = "flows" /\ pc = "screens" /\ si > Len(Sessions)
  /\ screens' = MapValues(screenMap)
  /\ flowList' = << >>
  /\ si' = 1 /\ ei' = 1
  /\ pc' = "flows"
  /\ UNCHANGED <<stage, files, git, recorder, trace, config, screenMap, currentUrl, actions, currentScreenId,
                 flowSteps, flowStartTime, stepEvents, flowEvents, entityMap,
                 observed, rulesIn, machines, output, result>>

(***************************************************************************)
(* flows(): extractFlows                                                   *)
(***************************************************************************)
\* flows.ts:133, the default minStepsForFlow
DefaultMinSteps == 2

\* config.minStepsForFlow || 2
minSteps == IF config.minStepsForFlow # 0 THEN config.minStepsForFlow ELSE DefaultMinSteps

\* config.maxFlowDuration || 5 * 60 * 1000
maxDuration ==
  IF config.maxFlowDuration # 0 THEN config.maxFlowDuration ELSE DefaultMaxFlowDuration

\* screens.find(s => s.id === id)?.label || 'Unknown'
LabelOrUnknown(list, id) ==
  LET found == {i \in 1..Len(list) : list[i].id = id}
  IN IF found = {} THEN UnknownLabel
     ELSE IF list[Min(found)].label = << >> THEN UnknownLabel
     ELSE list[Min(found)].label

\* the FlowStep appended for events[i]
StepOf(events, i, screenId) ==
  LET event == events[i]
  IN [type |-> event.type,
      screen |-> screenId,
      duration |-> IF i > 1 THEN event.timestamp - events[i - 1].timestamp ELSE 0,
      action |-> IF event.type = "click" THEN event.selector ELSE << >>,
      operation |-> IF event.type = "network"
                    THEN event.method \o <<" ">> \o UrlPathname(event.url) ELSE << >>]

\* flowSteps.push(step), flawed: the step is left out of the accumulator
PushStepMissing(steps, step) == steps

\* flowSteps.push(step)
PushStep(steps, step) == Append(steps, step)

\* the guard "newScreenId !== currentScreenId && flowSteps.length >= minSteps"
IsFlowBoundary(newScreenId, curScreenId, steps) ==
  newScreenId # curScreenId /\ Len(steps) >= minSteps

\* the guard "flowDuration <= maxDuration", flawed: the configured value is ignored
WithinDefaultDuration(flowDuration) == flowDuration <= DefaultMaxFlowDuration

\* the guard "flowDuration <= maxDuration"
WithinMaxDuration(flowDuration) == flowDuration <= maxDuration

DecimalDigits == <<"0", "1", "2", "3", "4", "5", "6", "7", "8", "9">>

\* a non-negative integer inside a template literal: its decimal digits
RECURSIVE NumberToString(_)
NumberToString(n) ==
  IF n < 10 THEN <<DecimalDigits[n + 1]>>
  ELSE NumberToString(n \div 10) \o <<DecimalDigits[(n % 10) + 1]>>

FlowPrefix == <<"f", "l", "o", "w", "-">>

\* the id of a new flow, flawed: numbered from zero
FlowIdFromZero(flows) == FlowPrefix \o NumberToString(Len(flows))

\* id: `flow-${flows.length + 1}`
FlowId(flows) == FlowPrefix \o NumberToString(Len(flows) + 1)

\* the accumulator after an event, flawed: a boundary leaves the steps in place
StepsKept(boundary, pushed) == pushed

\* "Reset for new flow": flowSteps = [] at a boundary
StepsAfter(boundary, pushed) ==
  IF boundary THEN << >> ELSE pushed

\* "Reset for new flow": flowStartTime = event.timestamp at a boundary
StartTimeAfter(boundary, event, start) ==
  IF boundary THEN event.timestamp ELSE start

\* top of "for (const session of trace.sessions)" in extractFlows
FlowsSession ==
  /\ stage = "flows" /\ pc = "flows" /\ si <= Len(Sessions)
  /\ currentUrl' = trace.meta.url
  /\ currentScreenId' = generateScreenId(trace.meta.url)
  /\ flowSteps' = << >>
  /\ stepEvents' = << >>
  /\ flowStartTime' = Sessions[si].startTime
  /\ ei' = 1
  /\ IF Len(Events) = 0
     THEN si' = si + 1 /\ pc' = "flows"
     ELSE si' = si /\ pc' = "flows-events"
  /\ UNCHANGED <<stage, files, git, recorder, trace, config, screenMap, actions, screens, flowList,
                 flowEvents, entityMap, observed, rulesIn, machines, output, result>>

\* one iteration of "for (let i = 0; i < events.length; i++)" in extractFlows
FlowsEvent ==
  /\ stage = "flows" /\ pc = "flows-events" /\ ei <= Len(Events)
  /\ LET event == Events[ei]
         \* new URL(event.url!) throws
         throws == event.type = "network" /\ ~UrlParses(event.url)
         step == StepOf(Events, ei, currentScreenId)
         pushed == PushStep(flowSteps, step)
         pushedIds == Append(stepEvents, ei)
         isNav == event.type = "navigate" /\ event.toUrl # << >>
         newScreenId == generateScreenId(event.toUrl)
         boundary == isNav /\ IsFlowBoundary(newScreenId, currentScreenId, pushed)
         flowDuration == event.timestamp - flowStartTime
         flow == [id |-> FlowId(flowList),
                  name |-> LabelOrUnknown(screens, currentScreenId) \o Arrow
                             \o LabelOrUnknown(screens, newScreenId),
                  fromScreen |-> currentScreenId,
                  toScreen |-> newScreenId,
                  steps |-> pushed,
                  avgDuration |-> flowDuration]
     IN IF throws
        THEN /\ Fail("Invalid URL")
             /\ UNCHANGED <<currentUrl, currentScreenId, flowSteps, stepEvents,
                            flowStartTime, flowList, flowEvents, si, ei>>
        ELSE /\ IF boundary /\ WithinMaxDuration(flowDuration)
                THEN /\ flowList' = Append(flowList, flow)
                     /\ flowEvents' = Append(flowEvents,
                                        [session |-> si, at |-> ei, events |-> pushedIds])
                ELSE UNCHANGED <<flowList, flowEvents>>
             /\ flowSteps' = StepsAfter(boundary, pushed)
             /\ stepEvents' = StepsAfter(boundary, pushedIds)
             /\ flowStartTime' = StartTimeAfter(boundary, event, flowStartTime)
             /\ IF isNav
                THEN currentUrl' = event.toUrl /\ currentScreenId' = newScreenId
                ELSE UNCHANGED <<currentUrl, currentScreenId>>
             /\ IF ei = Len(Events)
                THEN si' = si + 1 /\ ei' = 1 /\ pc' = "flows"
                ELSE si' = si /\ ei' = ei + 1 /\ pc' = "flows-events"
             /\ UNCHANGED <<output, result>>
  /\ UNCHANGED <<stage, files, git, recorder, trace, config, screenMap, actions, screens, entityMap,
                 observed, rulesIn, machines>>

\* return flows; flows() writes screens.json and flows.json and returns success
FlowsReturn ==
  /\ stage = "flows" /\ pc = "flows" /\ si > Len(Sessions)
  /\ output' = [output EXCEPT !.screens = screens, !.flows = flowList, !.written = TRUE]
  /\ result' = [returned |-> TRUE, success |-> TRUE,
                screensFound |-> Len(screens), flowsFound |-> Len(flowList)]
  /\ pc' = "done"
  /\ UNCHANGED <<stage, files, git, recorder, trace, config, si, ei, screenMap, currentUrl, actions, screens,
                 flowList, currentScreenId, flowSteps, flowStartTime, stepEvents,
                 flowEvents, entityMap, observed, rulesIn, machines>>

\* const traceData = fs.readFileSync(config.tracePath, 'utf-8'); JSON.parse
FlowsLoad == stage = "flows" /\ LoadTrace("screens")

\* the state at the entry of flows() for the files and the trace they hold
InitFlowsOn(fs, tr) ==
  /\ stage = "flows" /\ pc = "load"
  /\ files = fs
  /\ git = GitIdle /\ recorder = RecorderIdle
  /\ trace = tr
  /\ config \in FlowConfigs
  /\ si = 1 /\ ei = 1
  /\ screenMap = << >> /\ currentUrl = << >> /\ actions = << >> /\ screens = << >>
  /\ flowList = << >> /\ currentScreenId = << >> /\ flowSteps = << >>
  /\ flowStartTime = 0 /\ stepEvents = << >> /\ flowEvents = << >>
  /\ entityMap = << >> /\ observed = {} /\ rulesIn = [entities |-> << >>, flows |-> << >>]
  /\ machines = << >>
  /\ output = NoOutput /\ result = NoResult

\* an unreadable file holds no trace
InitFlows ==
  \E fs \in TraceFiles :
    \E tr \in (IF fs.trace = "valid" THEN FlowTraces ELSE {EmptyTrace}) :
      InitFlowsOn(fs, tr)

NextFlows ==
  \/ FlowsLoad
  \/ ScreensSession
  \/ ScreensEvent
  \/ ScreensReturn
  \/ FlowsSession
  \/ FlowsEvent
  \/ FlowsReturn

SpecFlows == InitFlows /\ [][NextFlows]_vars

(***************************************************************************)
(* entities(): path normalization and naming                               *)
(***************************************************************************)
HexChars == DigitChars \cup {"a", "b", "c", "d", "e", "f", "A", "B", "C", "D", "E", "F"}
IdParam == <<"/", ":", "i", "d">>

\* length of the run of characters of cs at the start of s
RECURSIVE RunLength(_, _)
RunLength(s, cs) ==
  IF s # << >> /\ Head(s) \in cs THEN 1 + RunLength(Tail(s), cs) ELSE 0

\* pathname.replace(/\/\d+/g, '/:id')
RECURSIVE ReplaceNumericIds(_)
ReplaceNumericIds(s) ==
  IF s = << >> THEN << >>
  ELSE IF Head(s) = "/" /\ RunLength(Tail(s), DigitChars) > 0
       THEN IdParam \o ReplaceNumericIds(SliceFrom(s, 1 + RunLength(Tail(s), DigitChars)))
       ELSE <<Head(s)>> \o ReplaceNumericIds(Tail(s))

\* s starts with "/" and a UUID: 8-4-4-4-12 hexadecimal digits
UuidWidth == 36
StartsWithUuid(s) ==
  /\ Len(s) >= 1 + UuidWidth
  /\ s[1] = "/"
  /\ \A i \in 2..(1 + UuidWidth) :
       IF i \in {10, 15, 20, 25} THEN s[i] = "-" ELSE s[i] \in HexChars

\* pathname.replace(/\/[0-9a-f]{8}-[0-9a-f]{4}-...-[0-9a-f]{12}/gi, '/:id')
RECURSIVE ReplaceUuids(_)
ReplaceUuids(s) ==
  IF s = << >> THEN << >>
  ELSE IF StartsWithUuid(s) THEN IdParam \o ReplaceUuids(SliceFrom(s, 1 + UuidWidth))
  ELSE <<Head(s)>> \o ReplaceUuids(Tail(s))

\* new URL(path, 'http://example.com') throws
BaseUrlThrows(path) == StartsWith(path, HttpScheme) /\ ~UrlParses(path)

\* new URL(path, 'http://example.com').pathname
BaseUrlPathname(path) ==
  IF UrlParses(path) THEN UrlPathname(path)
  ELSE LET stops == Positions(path, {"?", "#"})
           noQuery == IF stops = {} THEN path ELSE SubSeq(path, 1, Min(stops) - 1)
       IN IF StartsWith(noQuery, <<"/">>) THEN noQuery ELSE <<"/">> \o noQuery

normalizeUrlPath(path) ==
  IF BaseUrlThrows(path) THEN path
  ELSE ReplaceUuids(ReplaceNumericIds(BaseUrlPathname(path)))

\* .replace(/^api\//, '')
StripApiPrefix(s) ==
  IF StartsWith(s, <<"a", "p", "i", "/">>) THEN SliceFrom(s, 4) ELSE s

\* .replace(/^v\d+\//, '')
StripVersionPrefix(s) ==
  LET n == IF s # << >> THEN RunLength(Tail(s), DigitChars) ELSE 0
  IN IF s # << >> /\ Head(s) = "v" /\ n > 0 /\ Len(s) >= n + 2 /\ s[n + 2] = "/"
     THEN SliceFrom(s, n + 2) ELSE s

\* .replace(/:\w+$/, '')
StripColonParam(s) ==
  LET hits == {i \in 1..(Len(s) - 1) :
                 s[i] = ":" /\ \A j \in (i + 1)..Len(s) : s[j] \in WordChars}
  IN IF hits = {} THEN s ELSE SubSeq(s, 1, Min(hits) - 1)

\* .replace(/\{\w+\}$/, '')
StripBraceParam(s) ==
  LET hits == {i \in 1..(Len(s) - 2) :
                 /\ s[i] = "{" /\ s[Len(s)] = "}"
                 /\ \A j \in (i + 1)..(Len(s) - 1) : s[j] \in WordChars}
  IN IF hits = {} THEN s ELSE SubSeq(s, 1, Min(hits) - 1)

\* "Singularize if plural (simple heuristic)"
Singularize(name) ==
  IF EndsWith(name, <<"i", "e", "s">>) THEN DropLast(name, 3) \o <<"y">>
  ELSE IF EndsWith(name, <<"s", "e", "s">>) THEN DropLast(name, 2)
  ELSE IF EndsWith(name, <<"s">>) /\ ~EndsWith(name, <<"s", "s">>) THEN DropLast(name, 1)
  ELSE name

\* word.charAt(0).toUpperCase() + word.slice(1).toLowerCase(), joined
PascalCase(name) ==
  LET words == Split(name, {"-", "_"})
      Word(w) == IF w = << >> THEN << >>
                 ELSE <<ToUpperChar(w[1])>> \o ToLowerCase(Tail(w))
  IN Join([i \in 1..Len(words) |-> Word(words[i])], << >>)

\* the entity name of a normalized path; << >> (falsy) when there is none
extractEntityName(urlPath) ==
  LET clean == StripVersionPrefix(StripApiPrefix(
                 StripTrailingSlash(StripLeadingSlash(urlPath))))
      parts == Split(clean, {"/"})
  IN PascalCase(Singularize(StripBraceParam(StripColonParam(parts[1]))))

\* inferOperationKind, flawed: only literal digits count as an id segment
inferOperationKindDigitsOnly(method, path) ==
  LET hasId == \E i \in 1..Len(path) :
                 path[i] = "/" /\ RunLength(SliceFrom(path, i), DigitChars) > 0
  IN IF method = MethodGet THEN (IF hasId THEN "read" ELSE "list")
     ELSE IF method = MethodPost THEN "create"
     ELSE IF method \in {MethodPut, MethodPatch} THEN "update"
     ELSE IF method = MethodDelete THEN "delete"
     ELSE "list"

inferOperationKind(method, path) ==
  LET hasId == \/ Includes(path, <<"/", ":">>)
               \/ Includes(path, <<"/", "{">>)
               \/ \E i \in 1..Len(path) :
                    path[i] = "/" /\ RunLength(SliceFrom(path, i), DigitChars) > 0
  IN IF method = MethodGet THEN (IF hasId THEN "read" ELSE "list")
     ELSE IF method = MethodPost THEN "create"
     ELSE IF method \in {MethodPut, MethodPatch} THEN "update"
     ELSE IF method = MethodDelete THEN "delete"
     ELSE "list"

(***************************************************************************)
(* entities(): fields                                                      *)
(***************************************************************************)
\* a shape is the list of [key, value] entries of an object; a value is a type
\* name (kind "name") or a nested array or object shape
TypeName(t) == [kind |-> "name", name |-> t]
NestedShape(k) == [kind |-> k, name |-> "unknown"]

\* typeof value === 'string' ? value : inferFieldType(value)
FieldTypeOf(value) == IF value.kind = "name" THEN value.name ELSE value.kind

\* one entry of Object.entries(shape), flawed: the last observed type is kept
AddFieldLastWins(fields, entry, source) ==
  IF entry.key # << >> /\ entry.key[1] \in {"_", "$"} THEN fields
  ELSE MapSet(fields, entry.key,
         [name |-> entry.key, type |-> FieldTypeOf(entry.value),
          required |-> FALSE, source |-> source])

\* one entry of Object.entries(shape) in extractFieldsFromShape
AddField(fields, entry, source) ==
  IF entry.key # << >> /\ entry.key[1] \in {"_", "$"} THEN fields
  ELSE IF ~MapHas(fields, entry.key)
       THEN MapSet(fields, entry.key,
              [name |-> entry.key, type |-> FieldTypeOf(entry.value),
               required |-> FALSE, source |-> source])
       ELSE LET existing == MapGet(fields, entry.key)
                fieldType == FieldTypeOf(entry.value)
                widened == IF existing.type # fieldType /\ fieldType # "unknown"
                              /\ existing.type = "unknown"
                           THEN fieldType ELSE existing.type
            IN MapSet(fields, entry.key,
                 [existing EXCEPT !.type = widened,
                                  !.source = IF existing.source # source
                                             THEN "inferred" ELSE existing.source])

RECURSIVE extractFieldsFromShape(_, _, _)
extractFieldsFromShape(shape, source, existingFields) ==
  IF shape = << >> THEN existingFields
  ELSE extractFieldsFromShape(Tail(shape), source,
         AddField(existingFields, Head(shape), source))

(***************************************************************************)
(* entities(): the main loop                                               *)
(***************************************************************************)
KeyId == <<"i", "d">>
KeyUnderscoreId == <<"_", "i", "d">>
KeyName == <<"n", "a", "m", "e">>
KeyStatus == <<"s", "t", "a", "t", "u", "s">>
KeyCreatedAt == <<"c", "r", "e", "a", "t", "e", "d", "A", "t">>
KeyCreatedAtSnake == <<"c", "r", "e", "a", "t", "e", "d", "_", "a", "t">>
KeyUpdatedAt == <<"u", "p", "d", "a", "t", "e", "d", "A", "t">>
KeyUpdatedAtSnake == <<"u", "p", "d", "a", "t", "e", "d", "_", "a", "t">>

UrlWidget42 == UrlApiWidgets \o <<"/", "4", "2">>
UrlWidget7 == UrlApiWidgets \o <<"/", "7">>
UrlCategories == HttpScheme \o <<"h", "/", "a", "p", "i", "/", "v", "1", "/",
                                 "c", "a", "t", "e", "g", "o", "r", "i", "e", "s">>

\* a recorded event as the entities loop reads it
TraceEvent(type, method, url, requestShape, responseShape) ==
  [type |-> type, method |-> method, url |-> url,
   requestShape |-> requestShape, responseShape |-> responseShape]

WidgetRequest == <<[key |-> KeyName, value |-> TypeName("string")],
                   [key |-> KeyStatus, value |-> TypeName("unknown")]>>
WidgetResponse == <<[key |-> KeyId, value |-> TypeName("number")],
                    [key |-> KeyName, value |-> TypeName("string")],
                    [key |-> KeyStatus, value |-> TypeName("string")],
                    [key |-> KeyUnderscoreId, value |-> TypeName("string")],
                    [key |-> KeyCreatedAtSnake, value |-> TypeName("date-time")]>>

WidgetEvents ==
  {TraceEvent("network", MethodGet, UrlApiWidgets, << >>, << >>),
   TraceEvent("network", MethodPost, UrlApiWidgets, WidgetRequest, WidgetResponse),
   TraceEvent("network", MethodGet, UrlWidget42, << >>, WidgetResponse),
   TraceEvent("network", MethodGet, UrlWidget7, << >>, << >>),
   TraceEvent("network", MethodPatch, UrlWidget42, WidgetRequest, << >>),
   TraceEvent("network", MethodDelete, UrlWidget7, << >>, << >>)}

EntityEvents ==
  WidgetEvents \cup
    {TraceEvent("network", MethodGet, UrlCategories, << >>, << >>),
     TraceEvent("click", << >>, << >>, << >>, << >>)}

\* the key of entityMap, flawed: entities are filed under their normalized path
EntityKeyByPath(entityName, normalizedPath) == normalizedPath

\* the key of entityMap: entityMap.has(entityName), entityMap.set(entityName, ...)
EntityKey(entityName, normalizedPath) == entityName

\* the key of entityData.operations, flawed: the method is left out
OperationKeyPathOnly(method, normalizedPath) == normalizedPath

\* const operationKey = `${event.method}:${normalizedPath}`
OperationKey(method, normalizedPath) == method \o <<":">> \o normalizedPath

\* the body of the loop for one network event that names an entity
TrackEntity(map, event, normalizedPath, entityName) ==
  LET key == EntityKey(entityName, normalizedPath)
      initialized == IF MapHas(map, key) THEN map
                     ELSE MapSet(map, key,
                            [name |-> entityName, fields |-> << >>,
                             operations |-> << >>, baseUrl |-> normalizedPath])
      entityData == MapGet(initialized, key)
      withRequest == extractFieldsFromShape(event.requestShape, "request",
                                            entityData.fields)
      withResponse == extractFieldsFromShape(event.responseShape, "response",
                                             withRequest)
      operationKey == OperationKey(event.method, normalizedPath)
      operations == IF MapHas(entityData.operations, operationKey)
                    THEN entityData.operations
                    ELSE MapSet(entityData.operations, operationKey,
                           [kind |-> inferOperationKind(event.method, normalizedPath),
                            method |-> event.method, path |-> normalizedPath])
  IN MapSet(initialized, key,
       [entityData EXCEPT !.fields = withResponse, !.operations = operations])

\* entityMap after one iteration of the loop over the events
ProcessEvent(map, event) ==
  IF event.type # "network" \/ event.url = << >> \/ event.method = << >> THEN map
  ELSE LET normalizedPath == normalizeUrlPath(event.url)
           entityName == extractEntityName(normalizedPath)
       IN IF entityName = << >> THEN map
          ELSE TrackEntity(map, event, normalizedPath, entityName)

\* the Entity built from one entry of entityMap
EntityOf(data) ==
  LET primaryKey == IF MapHas(data.fields, KeyId) THEN KeyId
                    ELSE IF MapHas(data.fields, KeyUnderscoreId) THEN KeyUnderscoreId
                    ELSE << >>
      createdAt == IF MapHas(data.fields, KeyCreatedAt) THEN KeyCreatedAt
                   ELSE IF MapHas(data.fields, KeyCreatedAtSnake) THEN KeyCreatedAtSnake
                   ELSE << >>
      updatedAt == IF MapHas(data.fields, KeyUpdatedAt) THEN KeyUpdatedAt
                   ELSE IF MapHas(data.fields, KeyUpdatedAtSnake) THEN KeyUpdatedAtSnake
                   ELSE << >>
  IN [name |-> data.name,
      label |-> data.name,
      fields |-> MapValues(data.fields),
      operations |-> MapValues(data.operations),
      metadata |-> [baseUrl |-> data.baseUrl,
                    primaryKey |-> primaryKey,
                    hasTimestamps |-> createdAt # << >> \/ updatedAt # << >>,
                    timestamps |-> [createdAt |-> createdAt, updatedAt |-> updatedAt]]]

\* Array.from(entityMap.entries()).map(...)
EntitiesArray(map) == [i \in 1..Len(map) |-> EntityOf(map[i].value)]

\* entitiesArray.reduce((sum, e) => sum + e.operations.length, 0)
RECURSIVE TotalOperations(_)
TotalOperations(arr) ==
  IF arr = << >> THEN 0 ELSE Len(Head(arr).operations) + TotalOperations(Tail(arr))

\* one iteration of the loops over trace.sessions and session.events; the loop
\* carries nothing but entityMap from one event to the next, so the events of
\* the trace file are drawn as the loop reaches them, from the set events and
\* up to max of them
EntitiesLoop(events, max) ==
  /\ stage = "entities" /\ pc = "entities" /\ ei < max
  /\ \E event \in events :
       /\ entityMap' = ProcessEvent(entityMap, event)
       /\ observed' = observed \cup {event}
  /\ ei' = ei + 1
  /\ UNCHANGED <<stage, files, git, recorder, pc, trace, config, si, screenMap, currentUrl, actions, screens,
                 flowList, currentScreenId, flowSteps, flowStartTime, stepEvents,
                 flowEvents, rulesIn, machines, output, result>>

EntitiesEvent == EntitiesLoop(EntityEvents, MaxNetEvents)

\* the end of the trace: entities.json is written and the result returned
EntitiesReturn ==
  /\ stage = "entities" /\ pc = "entities"
  /\ LET entitiesArray == EntitiesArray(entityMap)
         totalOperations == IF config.includeMetadata
                            THEN TotalOperations(entitiesArray) ELSE 0
     IN /\ output' = [output EXCEPT !.entities = entitiesArray, !.written = TRUE]
        /\ result' = [returned |-> TRUE, success |-> TRUE,
                      entitiesFound |-> Len(entitiesArray),
                      operationsFound |-> totalOperations]
  /\ pc' = "done"
  /\ UNCHANGED <<stage, files, git, recorder, trace, config, si, ei, screenMap, currentUrl, actions, screens,
                 flowList, currentScreenId, flowSteps, flowStartTime, stepEvents,
                 flowEvents, entityMap, observed, rulesIn, machines>>

\* const traceData = fs.readFileSync(config.tracePath, 'utf-8'); JSON.parse
EntitiesLoad == stage = "entities" /\ LoadTrace("entities")

InitEntities ==
  /\ stage = "entities" /\ pc = "load"
  /\ files \in TraceFiles
  /\ git = GitIdle /\ recorder = RecorderIdle
  /\ trace = EmptyTrace
  /\ config \in [includeMetadata : BOOLEAN]
  /\ si = 1 /\ ei = 0
  /\ screenMap = << >> /\ currentUrl = << >> /\ actions = << >> /\ screens = << >>
  /\ flowList = << >> /\ currentScreenId = << >> /\ flowSteps = << >>
  /\ flowStartTime = 0 /\ stepEvents = << >> /\ flowEvents = << >>
  /\ entityMap = << >> /\ observed = {} /\ rulesIn = [entities |-> << >>, flows |-> << >>]
  /\ machines = << >>
  /\ output = NoOutput /\ result = NoResult

NextEntities ==
  \/ EntitiesLoad
  \/ EntitiesEvent
  \/ EntitiesReturn

SpecEntities == InitEntities /\ [][NextEntities]_vars

(***************************************************************************)
(* Traces of the entities stage with nested paths, conflicting field types *)
(* and URLs that new URL() rejects                                         *)
(***************************************************************************)
MaxEdgeEvents == 3

UrlApiUsers == HttpScheme \o <<"h", "/", "a", "p", "i", "/", "u", "s", "e", "r", "s">>
UrlUser5 == UrlApiUsers \o <<"/", "5">>
UrlUser5Posts == UrlUser5 \o <<"/", "p", "o", "s", "t", "s">>
\* a URL without a host: new URL('http://', 'http://example.com') throws
UrlNoHost == HttpScheme

EdgeEvents ==
  {TraceEvent("network", MethodGet, UrlUser5Posts, << >>, << >>),
   TraceEvent("network", MethodGet, UrlUser5, << >>,
              <<[key |-> KeyUnderscoreId, value |-> TypeName("string")],
                [key |-> KeyStatus, value |-> TypeName("unknown")]>>),
   TraceEvent("network", MethodPost, UrlApiUsers,
              <<[key |-> KeyStatus, value |-> TypeName("number")]>>,
              <<[key |-> KeyId, value |-> TypeName("number")],
                [key |-> KeyStatus, value |-> TypeName("string")]>>),
   TraceEvent("network", MethodPut, UrlUser5,
              <<[key |-> KeyStatus, value |-> TypeName("unknown")],
                [key |-> KeyName, value |-> NestedShape("object")]>>, << >>),
   TraceEvent("network", MethodGet, UrlNoHost, << >>,
              <<[key |-> KeyName, value |-> TypeName("string")]>>),
   TraceEvent("click", << >>, << >>, << >>, << >>)}

EntitiesEdgeEvent == EntitiesLoop(EdgeEvents, MaxEdgeEvents)

NextEntitiesEdge ==
  \/ EntitiesLoad
  \/ EntitiesEdgeEvent
  \/ EntitiesReturn

SpecEntitiesEdge == InitEntities /\ [][NextEntitiesEdge]_vars

(***************************************************************************)
(* Traces of the entities stage whose paths end in an id-like segment      *)
(***************************************************************************)
MaxIdEvents == 3

UrlApiTokens == HttpScheme \o <<"h", "/", "a", "p", "i", "/", "t", "o", "k", "e", "n", "s">>
UuidTail == <<"-", "a", "b", "c", "d", "-", "1", "2", "3", "4", "-", "a", "b", "c", "d",
              "-", "0", "1", "2", "3", "4", "5", "a", "b", "c", "d", "e", "f">>
\* a UUID whose first character is a letter, and one whose first is a digit
UuidLetterFirst == <<"a", "b", "c", "d", "e", "f", "0", "1">> \o UuidTail
UuidDigitFirst == <<"1", "b", "c", "d", "e", "f", "0", "1">> \o UuidTail
SegmentTwoFa == <<"2", "f", "a">>
SegmentNumber == <<"4", "2">>

IdSegments == {SegmentNumber, SegmentTwoFa, UuidLetterFirst, UuidDigitFirst}

IdEvents ==
  {TraceEvent("network", MethodGet, UrlApiTokens \o <<"/">> \o seg, << >>, << >>) :
     seg \in IdSegments}
  \cup {TraceEvent("network", MethodGet, UrlApiTokens, << >>, << >>)}

EntitiesIdEvent == EntitiesLoop(IdEvents, MaxIdEvents)

NextEntitiesIds ==
  \/ EntitiesLoad
  \/ EntitiesIdEvent
  \/ EntitiesReturn

SpecEntitiesIds == InitEntities /\ [][NextEntitiesIds]_vars

(***************************************************************************)
(* Properties of the Screen Segmenter and the Flow Assembler               *)
(***************************************************************************)
Range(seq) == {seq[i] : i \in 1..Len(seq)}

NoDuplicates(seq) == \A i, j \in 1..Len(seq) : seq[i] = seq[j] => i = j

ScreenWorkspaces ==
  <<"s", "c", "r", "e", "e", "n", "-", "w", "o", "r", "k", "s", "p", "a", "c", "e", "s">>

\* the current URL of a session once its first i events have happened
RECURSIVE UrlAfter(_, _)
UrlAfter(events, i) ==
  IF i = 0 THEN trace.meta.url
  ELSE IF events[i].type = "navigate" /\ events[i].toUrl # << >> THEN events[i].toUrl
  ELSE UrlAfter(events, i - 1)

\* ids of the clicks made while the current URL resolved to screen id
ClickIdsOn(id) ==
  UNION {{Sessions[s].events[i].id : i \in
            {j \in 1..Len(Sessions[s].events) :
               /\ Sessions[s].events[j].type = "click"
               /\ generateScreenId(UrlAfter(Sessions[s].events, j)) = id}}
         : s \in 1..Len(Sessions)}

\* navigate events of a session that lead to a different screen
ScreenChangingNavs(events) ==
  {j \in 1..Len(events) :
     /\ events[j].type = "navigate" /\ events[j].toUrl # << >>
     /\ generateScreenId(events[j].toUrl) # generateScreenId(UrlAfter(events, j - 1))}

DefaultThresholds == config.minStepsForFlow = 0 /\ config.maxFlowDuration = 0

\* one session on root "/": n clicks, then one navigate to /workspaces
ClicksThenNavigate(n) ==
  /\ trace.meta.url = RootUrl
  /\ Len(Sessions) = 1
  /\ Len(Sessions[1].events) = n + 1
  /\ \A i \in 1..n : Sessions[1].events[i].type = "click"
  /\ Sessions[1].events[n + 1].type = "navigate"
  /\ Sessions[1].events[n + 1].toUrl = UrlWorkspaces

WithinFiveMinutes ==
  \A i \in 1..Len(Sessions[1].events) :
    Sessions[1].events[i].timestamp - Sessions[1].startTime <= 300000

\* the step expected for event i of the only session, taken on the landing screen
ExpectedStep(i) ==
  LET evs == Sessions[1].events
  IN [type |-> evs[i].type, screen |-> ScreenLanding,
      duration |-> IF i = 1 THEN 0 ELSE evs[i].timestamp - evs[i - 1].timestamp,
      action |-> evs[i].selector, operation |-> << >>]

\* C1: with default thresholds, two clicks followed by a navigate from "/" to
\* /workspaces within maxFlowDuration yield exactly one flow, from
\* screen-landing to screen-workspaces, whose steps are the two click steps
\* followed by the navigate step.
C1_TwoClicksOneFlow ==
  (pc = "done" /\ DefaultThresholds /\ ClicksThenNavigate(2) /\ WithinFiveMinutes)
    => /\ Len(output.flows) = 1
       /\ output.flows[1].fromScreen = ScreenLanding
       /\ output.flows[1].toScreen = ScreenWorkspaces
       /\ output.flows[1].steps = <<ExpectedStep(1), ExpectedStep(2), ExpectedStep(3)>>

C1_Witness ==
  pc = "done" /\ DefaultThresholds /\ ClicksThenNavigate(2) /\ WithinFiveMinutes

\* C2 as stated: with default thresholds a navigate preceded by zero clicks or
\* by exactly one click emits no flow.
C2_Original ==
  (pc = "done" /\ DefaultThresholds /\ (ClicksThenNavigate(0) \/ ClicksThenNavigate(1)))
    => output.flows = << >>

\* C2 amended: with default thresholds a navigate preceded by zero clicks emits
\* no flow; preceded by exactly one click (within maxFlowDuration) it emits one
\* flow of two steps, the click and the navigate, because the navigate step
\* itself counts toward minStepsForFlow.
C2_OneClickIsEnough ==
  /\ (pc = "done" /\ DefaultThresholds /\ ClicksThenNavigate(0))
       => output.flows = << >>
  /\ (pc = "done" /\ DefaultThresholds /\ ClicksThenNavigate(1) /\ WithinFiveMinutes)
       => /\ Len(output.flows) = 1
          /\ output.flows[1].steps = <<ExpectedStep(1), ExpectedStep(2)>>

C2_Witness ==
  pc = "done" /\ DefaultThresholds /\ ClicksThenNavigate(1) /\ WithinFiveMinutes

\* C5: the primaryActions of every screen of the output are, without
\* duplicates, exactly the ids of the clicks made while the session's current
\* URL resolved to that screen.
C5_ActionsBelongToScreen ==
  pc = "done" =>
    \A k \in 1..Len(output.screens) :
      /\ NoDuplicates(output.screens[k].primaryActions)
      /\ Range(output.screens[k].primaryActions) = ClickIdsOn(output.screens[k].id)

\* C6: every step of an emitted flow comes from an event after the previous
\* screen-changing navigate of its session: a run discarded for being too
\* short is never merged into a later flow.
C6_ShortRunsNeverMerged ==
  \A k \in 1..Len(flowEvents) :
    LET fe == flowEvents[k]
        navs == {j \in ScreenChangingNavs(Sessions[fe.session].events) : j < fe.at}
    IN \A n \in 1..Len(fe.events) : \A j \in navs : fe.events[n] > j

\* C7: every emitted flow joins two different screens, has at least
\* minStepsForFlow steps and an avgDuration of at most maxFlowDuration; the
\* events of its steps never span more than its avgDuration, so a candidate
\* whose elapsed time exceeds maxFlowDuration is not emitted.
C7_EmissionGuard ==
  \A k \in 1..Len(flowList) :
    LET flow == flowList[k]
        evs == Sessions[flowEvents[k].session].events
        first == evs[flowEvents[k].events[1]].timestamp
        last == evs[flowEvents[k].at].timestamp
    IN /\ flow.fromScreen # flow.toScreen
       /\ Len(flow.steps) >=
            (IF config.minStepsForFlow # 0 THEN config.minStepsForFlow ELSE 2)
       /\ flow.avgDuration <=
            (IF config.maxFlowDuration # 0 THEN config.maxFlowDuration ELSE 300000)
       /\ last - first <= flow.avgDuration
       /\ pc = "done" => output.flows = flowList

C7_Witness ==
  /\ pc = "done" /\ Len(output.flows) >= 1
  /\ config.maxFlowDuration # 0

\* the navigate, among the first j events of a session, that last closed a
\* candidate (emitted or dropped for its duration): it leads to another screen
\* and at least minSteps events, itself included, follow the previous such
\* navigate; 0 when there is none
RECURSIVE LastReset(_, _)
LastReset(events, j) ==
  IF j = 0 THEN 0
  ELSE LET prev == LastReset(events, j - 1)
       IN IF j \in ScreenChangingNavs(events) /\ j - prev >= minSteps THEN j ELSE prev

C24_FlowIdsAreConsecutive ==
  stage = "flows" =>
    /\ \A k \in 1..Len(flowList) : flowList[k].id = FlowPrefix \o NumberToString(k)
    /\ \A k \in 1..Len(output.flows) :
         output.flows[k].id = FlowPrefix \o NumberToString(k)

\* two flows written from two sessions of one recording
C24_Witness ==
  /\ stage = "flows" /\ pc = "done"
  /\ Len(output.flows) >= 2
  /\ flowEvents[1].session # flowEvents[2].session
  /\ output.flows[2].id = <<"f", "l", "o", "w", "-", "2">>

\* a path segment that is an id: decimal digits only, or a UUID
IsIdSegment(seg) ==
  \/ seg # << >> /\ \A i \in 1..Len(seg) : seg[i] \in DigitChars
  \/ StartsWithUuid(<<"/">> \o seg) /\ Len(seg) = UuidWidth

\* a pathname with each id segment replaced by ":id" and no other change
WithIdSegmentsReplaced(pathname) ==
  LET segs == Split(pathname, {"/"})
  IN Join([i \in 1..Len(segs) |->
             IF IsIdSegment(segs[i]) THEN <<":", "i", "d">> ELSE segs[i]], <<"/">>)

\* C25: path normalization replaces every purely numeric or UUID-shaped
\* segment (UUIDs whose first character is a digit included) by ":id" and
\* leaves every other segment unchanged (a segment such as "2fa" is kept): the
\* paths of the written operations are the observed pathnames so normalized.
C25_OnlyIdSegmentsReplaced ==
  (stage = "entities" /\ pc = "done") =>
    \A k \in 1..Len(output.entities) :
      \A o \in 1..Len(output.entities[k].operations) :
        \E e \in observed :
          /\ e.type = "network" /\ UrlParses(e.url)
          /\ output.entities[k].operations[o].path
               = WithIdSegmentsReplaced(UrlPathname(e.url))

(***************************************************************************)
(* The two stages that read the trace file                                 *)
(***************************************************************************)
InitTraceStages == InitFlows \/ InitEntities

NextTraceStages == NextFlows \/ NextEntities

SpecTraceStages == InitTraceStages /\ [][NextTraceStages]_vars

(***************************************************************************)
(* Properties of the Entity Resolver                                       *)
(***************************************************************************)
NameWidget == <<"W", "i", "d", "g", "e", "t">>
PathWidgets == <<"/", "a", "p", "i", "/", "w", "i", "d", "g", "e", "t", "s">>
PathWidgetsId == PathWidgets \o <<"/", ":", "i", "d">>

NetworkObserved == {e \in observed : e.type = "network"}

\* the five request shapes against /api/widgets, for any numeric id
IsWidgetShape(e, kind) ==
  LET onCollection == e.url = UrlApiWidgets
      onMember == /\ StartsWith(e.url, UrlApiWidgets \o <<"/">>)
                  /\ Len(e.url) > Len(UrlApiWidgets) + 1
                  /\ \A i \in (Len(UrlApiWidgets) + 2)..Len(e.url) : e.url[i] \in DigitChars
  IN CASE kind = "list" -> e.method = MethodGet /\ onCollection
       [] kind = "create" -> e.method = MethodPost /\ onCollection
       [] kind = "read" -> e.method = MethodGet /\ onMember
       [] kind = "update" -> e.method = MethodPatch /\ onMember
       [] kind = "delete" -> e.method = MethodDelete /\ onMember

CrudKinds == {"list", "create", "read", "update", "delete"}

OnlyWidgetCrud ==
  /\ \A e \in NetworkObserved : \E kind \in CrudKinds : IsWidgetShape(e, kind)
  /\ \A kind \in CrudKinds : \E e \in NetworkObserved : IsWidgetShape(e, kind)

\* C3: when the network events are GET and POST /api/widgets and GET, PATCH
\* and DELETE /api/widgets/<n>, each at least once, in any order and number,
\* the output is exactly one entity, Widget, with exactly five operations of
\* kinds list, create, read, update and delete, each once.
C3_WidgetCrud ==
  (stage = "entities" /\ pc = "done" /\ OnlyWidgetCrud)
    => /\ Len(output.entities) = 1
       /\ output.entities[1].name = NameWidget
       /\ Len(output.entities[1].operations) = 5
       /\ \A kind \in CrudKinds :
            Cardinality({i \in 1..5 : output.entities[1].operations[i].kind = kind}) = 1

C3_Witness ==
  /\ stage = "entities" /\ pc = "done" /\ OnlyWidgetCrud
  /\ ei > Cardinality(NetworkObserved)
  /\ \E e, f \in NetworkObserved : e.url = UrlWidget42 /\ f.url = UrlWidget7

\* C8: no two screens of the screens output have the same id and no two
\* entities of the entities output have the same name.
C8_UniqueIdsAndNames ==
  /\ \A i, j \in 1..Len(screenMap) :
       screenMap[i].value.id = screenMap[j].value.id => i = j
  /\ \A i, j \in 1..Len(output.screens) :
       output.screens[i].id = output.screens[j].id => i = j
  /\ \A i, j \in 1..Len(entityMap) :
       entityMap[i].value.name = entityMap[j].value.name => i = j
  /\ \A i, j \in 1..Len(output.entities) :
       output.entities[i].name = output.entities[j].name => i = j
  /\ (stage = "flows" /\ pc = "done") => output.screens = MapValues(screenMap)
  /\ (stage = "entities" /\ pc = "done") => Len(output.entities) = Len(entityMap)

C8_Witness ==
  /\ stage = "entities" /\ pc = "done"
  /\ Len(output.entities) = 2
  /\ \E e, f \in NetworkObserved :
       /\ normalizeUrlPath(e.url) = PathWidgets
       /\ normalizeUrlPath(f.url) = PathWidgetsId

\* the (method, normalized path) pairs observed for the entity called name
PairsObservedFor(name) ==
  {<<e.method, normalizeUrlPath(e.url)>> :
     e \in {f \in NetworkObserved :
              /\ f.url # << >> /\ f.method # << >>
              /\ extractEntityName(normalizeUrlPath(f.url)) = name}}

OperationsExact(name, operations) ==
  /\ \A i, j \in 1..Len(operations) :
       (operations[i].method = operations[j].method
          /\ operations[i].path = operations[j].path) => i = j
  /\ {<<operations[i].method, operations[i].path>> : i \in 1..Len(operations)}
       = PairsObservedFor(name)

\* C9: no entity holds two operations with the same method and normalized
\* path, and it holds exactly one operation for each (method, normalized path)
\* pair observed for it.
C9_OperationsUniqueAndComplete ==
  /\ \A k \in 1..Len(entityMap) :
       OperationsExact(entityMap[k].value.name, MapValues(entityMap[k].value.operations))
  /\ \A k \in 1..Len(output.entities) :
       OperationsExact(output.entities[k].name, output.entities[k].operations)

C9_Witness ==
  /\ stage = "entities" /\ pc = "done"
  /\ ei > Cardinality(NetworkObserved)
  /\ \E k \in 1..Len(output.entities) : Len(output.entities[k].operations) >= 3

(***************************************************************************)
(* extractRules(): state machines                                          *)
(***************************************************************************)
StDraft == <<"d", "r", "a", "f", "t">>
StPending == <<"p", "e", "n", "d", "i", "n", "g">>
StActive == <<"a", "c", "t", "i", "v", "e">>
StCompleted == <<"c", "o", "m", "p", "l", "e", "t", "e", "d">>
StArchived == <<"a", "r", "c", "h", "i", "v", "e", "d">>
StDeleted == <<"d", "e", "l", "e", "t", "e", "d">>
StNew == <<"n", "e", "w">>
StCreated == <<"c", "r", "e", "a", "t", "e", "d">>
StInitial == <<"i", "n", "i", "t", "i", "a", "l">>
WordArchive == <<"a", "r", "c", "h", "i", "v", "e">>
WordApprove == <<"a", "p", "p", "r", "o", "v", "e">>
WordDelete == <<"d", "e", "l", "e", "t", "e">>
CreateSuccess == <<"c", "r", "e", "a", "t", "e", "_", "s", "u", "c", "c", "e", "s", "s">>

\* ['status', 'state', 'phase', 'stage']
StateFieldNames == <<KeyStatus, <<"s", "t", "a", "t", "e">>, <<"p", "h", "a", "s", "e">>,
                     <<"s", "t", "a", "g", "e">>>>

\* const commonStates
commonStates == <<StDraft, StPending, StActive, StCompleted, StArchived, StDeleted>>

\* ['draft', 'pending', 'new', 'created', 'initial']
InitialStateNames == <<StDraft, StPending, StNew, StCreated, StInitial>>

\* flow.name.toLowerCase().includes(entityName.toLowerCase())
FlowInvolves(flow, entityName) ==
  Includes(ToLowerCase(flow.name), ToLowerCase(entityName))

\* states.add(lower) for each word of a flow name that is a common state
RECURSIVE AddStateWords(_, _)
AddStateWords(states, words) ==
  IF words = << >> THEN states
  ELSE LET lower == ToLowerCase(Head(words))
       IN AddStateWords(IF ArrIncludes(commonStates, lower) /\ ~ArrIncludes(states, lower)
                        THEN Append(states, lower) ELSE states,
                        Tail(words))

RECURSIVE StatesOfFlows(_, _, _)
StatesOfFlows(states, entityName, flows) ==
  IF flows = << >> THEN states
  ELSE StatesOfFlows(
         IF FlowInvolves(Head(flows), entityName)
         THEN AddStateWords(states, SplitRuns(Head(flows).name, {" ", ArrowChar, "-"}))
         ELSE states,
         entityName, Tail(flows))

inferStatesFromFlows(entityName, flows) ==
  LET states == StatesOfFlows(<< >>, entityName, flows)
  IN IF Len(states) > 0 THEN states ELSE <<StDraft, StActive, StArchived>>

\* the transition is pushed, flawed: transitionMap.has(key) is not consulted
AddTransitionUnchecked(tmap, from, to, trigger) ==
  Append(tmap, [key |-> from \o <<ArrowChar>> \o to,
                value |-> [from |-> from, to |-> to, trigger |-> trigger]])

\* transitionMap.set(key, t) unless transitionMap.has(key)
AddTransition(tmap, from, to, trigger) ==
  LET key == from \o <<ArrowChar>> \o to
  IN IF MapHas(tmap, key) THEN tmap
     ELSE MapSet(tmap, key, [from |-> from, to |-> to, trigger |-> trigger])

\* DELETE: for (const state of states) if (state !== 'deleted') ...
RECURSIVE AddDeleteTransitions(_, _)
AddDeleteTransitions(tmap, states) ==
  IF states = << >> THEN tmap
  ELSE AddDeleteTransitions(
         IF Head(states) # StDeleted
         THEN AddTransition(tmap, Head(states), StDeleted, WordDelete) ELSE tmap,
         Tail(states))

\* the rule table applied to one examined step of a flow
ApplyStep(tmap, flow, states, step) ==
  IF ~(step.type = "network" /\ step.operation # << >>) THEN tmap
  ELSE LET method == Split(step.operation, {" "})[1]
           flowLower == ToLowerCase(flow.name)
           afterPost == IF method = MethodPost
                        THEN AddTransition(tmap, StDraft, StActive, CreateSuccess)
                        ELSE tmap
           afterUpdate ==
             IF method = MethodPatch \/ method = MethodPut
             THEN IF Includes(flowLower, WordArchive)
                  THEN AddTransition(afterPost, StActive, StArchived, WordArchive)
                  ELSE IF Includes(flowLower, WordApprove)
                  THEN AddTransition(afterPost, StPending, StActive, WordApprove)
                  ELSE afterPost
             ELSE afterPost
       IN IF method = MethodDelete THEN AddDeleteTransitions(afterUpdate, states)
          ELSE afterUpdate

\* for (let i = 0; i < flow.steps.length - 1; i++), from step i on (1-based)
RECURSIVE StepsLoop(_, _, _, _)
StepsLoop(tmap, flow, states, i) ==
  IF i > Len(flow.steps) - 1 THEN tmap
  ELSE StepsLoop(ApplyStep(tmap, flow, states, flow.steps[i]), flow, states, i + 1)

RECURSIVE FlowsLoop(_, _, _, _)
FlowsLoop(tmap, entityName, states, flows) ==
  IF flows = << >> THEN tmap
  ELSE FlowsLoop(IF FlowInvolves(Head(flows), entityName)
                 THEN StepsLoop(tmap, Head(flows), states, 1) ELSE tmap,
                 entityName, states, Tail(flows))

extractTransitions(entityName, states, flows) ==
  MapValues(FlowsLoop(<< >>, entityName, states, flows))

IsInitialName(s) == ArrIncludes(InitialStateNames, ToLowerCase(s))

\* the initial state, flawed: the lower-cased name is returned
InitialStateLowered(states) ==
  LET hits == {i \in 1..Len(states) : IsInitialName(states[i])}
  IN IF hits # {} THEN ToLowerCase(states[Min(hits)]) ELSE states[1]

\* states.find(s => [...].includes(s.toLowerCase())) || states[0]
InitialState(states) ==
  LET hits == {i \in 1..Len(states) : IsInitialName(states[i])}
  IN IF hits # {} THEN states[Min(hits)] ELSE states[1]

IsStateField(f) == ArrIncludes(StateFieldNames, ToLowerCase(f.name))

\* machines after one iteration of the loop of extractStateMachines
MachinesWith(list, entity, flows) ==
  LET hits == {i \in 1..Len(entity.fields) : IsStateField(entity.fields[i])}
      \* entity.fields.find(f => [...].includes(f.name.toLowerCase()))
      stateField == entity.fields[Min(hits)]
      states == IF stateField.hasEnum THEN stateField.enum
                ELSE inferStatesFromFlows(entity.name, flows)
  IN IF hits = {} THEN list
     ELSE IF Len(states) = 0 THEN list
     ELSE Append(list, [entity |-> entity.name,
                        states |-> states,
                        initial |-> InitialState(states),
                        transitions |-> extractTransitions(entity.name, states, flows)])

\* ['status', 'state'] of extractBusinessRules
WorkflowFieldNames == <<KeyStatus, <<"s", "t", "a", "t", "e">>>>

\* entity.fields.some(f => ['status', 'state'].includes(f.name.toLowerCase()))
hasStateMachine(entity) ==
  \E i \in 1..Len(entity.fields) :
    ArrIncludes(WorkflowFieldNames, ToLowerCase(entity.fields[i].name))

BusinessRule(entityName, name, source) ==
  [entity |-> entityName, name |-> name, source |-> source]

\* rules after one iteration of the loop of extractBusinessRules
BusinessRulesWith(rules, entity) ==
  LET workflow == IF hasStateMachine(entity)
                  THEN Append(rules, BusinessRule(entity.name, "workflow_progression",
                                                  "inferred"))
                  ELSE rules
  IN IF entity.metadata.timestamps
     THEN Append(workflow, BusinessRule(entity.name, "timestamp_immutability",
                                        "heuristic"))
     ELSE workflow

RECURSIVE BusinessRulesLoop(_, _)
BusinessRulesLoop(rules, ents) ==
  IF ents = << >> THEN rules
  ELSE BusinessRulesLoop(BusinessRulesWith(rules, Head(ents)), Tail(ents))

extractBusinessRules(inputs) == BusinessRulesLoop(<< >>, inputs.entities)

PermissionRule(entityName, action, roles, source) ==
  [entity |-> entityName, action |-> action, roles |-> roles, source |-> source]

\* entity.operations.some(op => op.kind === kind)
HasOperationOfKind(entity, kind) ==
  \E o \in 1..Len(entity.operations) : entity.operations[o].kind = kind

\* the create, update and delete permissions of one entity
OperationPermissions(entity) ==
  (IF HasOperationOfKind(entity, "create")
   THEN <<PermissionRule(entity.name, "create", <<"authenticated">>, "heuristic")>>
   ELSE << >>)
  \o (IF HasOperationOfKind(entity, "update")
      THEN <<PermissionRule(entity.name, "update", <<"owner", "admin">>, "heuristic")>>
      ELSE << >>)
  \o (IF HasOperationOfKind(entity, "delete")
      THEN <<PermissionRule(entity.name, "delete", <<"admin">>, "heuristic")>>
      ELSE << >>)

\* "Special actions (inferred from flows)": the loop over inputs.flows
RECURSIVE FlowPermissions(_, _)
FlowPermissions(entity, fls) ==
  IF fls = << >> THEN << >>
  ELSE LET flowLower == ToLowerCase(Head(fls).name)
           involved == Includes(flowLower, ToLowerCase(entity.name))
           approve == IF involved /\ Includes(flowLower, <<"a", "p", "p", "r", "o", "v", "e">>)
                      THEN <<PermissionRule(entity.name, "approve",
                                            <<"manager", "admin">>, "inferred")>>
                      ELSE << >>
           archive == IF involved /\ Includes(flowLower, <<"a", "r", "c", "h", "i", "v", "e">>)
                      THEN <<PermissionRule(entity.name, "archive",
                                            <<"owner", "admin">>, "inferred")>>
                      ELSE << >>
       IN approve \o archive \o FlowPermissions(entity, Tail(fls))

RECURSIVE PermissionRulesLoop(_, _)
PermissionRulesLoop(ents, fls) ==
  IF ents = << >> THEN << >>
  ELSE OperationPermissions(Head(ents)) \o FlowPermissions(Head(ents), fls)
         \o PermissionRulesLoop(Tail(ents), fls)

extractPermissionRules(inputs) == PermissionRulesLoop(inputs.entities, inputs.flows)

(***************************************************************************)
(* Inputs of the Rule Extractor                                            *)
(***************************************************************************)
NameOrder == <<"O", "r", "d", "e", "r">>
PathOrders == <<"/", "a", "p", "i", "/", "o", "r", "d", "e", "r", "s">>
FlowOrderCreation ==
  <<"O", "r", "d", "e", "r", " ", "C", "r", "e", "a", "t", "i", "o", "n">>
FlowArchiveOrder ==
  <<"A", "r", "c", "h", "i", "v", "e", " ", "o", "r", "d", "e", "r", " ", "-", " ",
    "A", "c", "t", "i", "v", "e", " ", ArrowChar, " ", "p", "e", "n", "d", "i", "n", "g">>
FlowWidgetApprove ==
  <<"W", "i", "d", "g", "e", "t", " ", "a", "p", "p", "r", "o", "v", "e">>
RuleFlowNames == {FlowOrderCreation, FlowArchiveOrder, FlowWidgetApprove}

EntityField(name, type, hasEnum, enum) ==
  [name |-> name, type |-> type, required |-> FALSE, source |-> "response",
   hasEnum |-> hasEnum, enum |-> enum]

IdField == EntityField(KeyId, "number", FALSE, << >>)

\* the field lists an input entity may have
RuleFieldLists ==
  {<<IdField>>,
   <<IdField, EntityField(KeyStatus, "string", TRUE, <<StDraft, StActive, StArchived>>)>>,
   <<IdField, EntityField(<<"S", "t", "a", "t", "e">>, "enum", TRUE,
                          <<<<"A", "c", "t", "i", "v", "e">>,
                            <<"P", "e", "n", "d", "i", "n", "g">>>>)>>,
   <<IdField, EntityField(KeyStatus, "string", TRUE, << >>)>>,
   <<EntityField(<<"p", "h", "a", "s", "e">>, "string", FALSE, << >>), IdField>>}

\* entity names are unique in entities.json: the k-th input entity is named
RuleEntityNames == <<NameOrder, NameWidget, <<"T", "a", "s", "k">>, <<"U", "s", "e", "r">>>>

RuleOperation(method, path, kind) == [method |-> method, path |-> path, kind |-> kind]

\* the first entity of the file was seen created on two paths and deleted
OrderOperations ==
  <<RuleOperation(MethodPost, PathOrders, "create"),
    RuleOperation(MethodPost, PathOrders \o <<"/", "b", "u", "l", "k">>, "create"),
    RuleOperation(MethodDelete, PathOrders \o IdParam, "delete")>>

\* the second entity of the file carries metadata.timestamps, the others none
RuleEntity(k, fields) ==
  [name |-> RuleEntityNames[k], label |-> RuleEntityNames[k], fields |-> fields,
   operations |-> IF k = 1 THEN OrderOperations ELSE << >>,
   metadata |-> [timestamps |-> k = 2]]

RuleEntityLists ==
  UNION {{[k \in 1..n |-> RuleEntity(k, f[k])] : f \in [1..n -> RuleFieldLists]}
         : n \in 1..MaxRuleEntities}

RuleStep(type, operation) ==
  [type |-> type, screen |-> ScreenLanding, duration |-> 0,
   action |-> IF type = "click" THEN SelectorBtn ELSE << >>, operation |-> operation]

RuleSteps ==
  {RuleStep("click", << >>)}
    \cup {RuleStep("network", m \o <<" ">> \o PathOrders)
          : m \in {MethodPost, MethodPatch, MethodDelete}}

\* the input flows are written as items: a flow name opens a flow, a step is
\* added to the flow opened last (steps before the first flow are dropped)
RuleItems == [isFlow : {TRUE}, name : RuleFlowNames, step : {RuleStep("click", << >>)}]
               \cup [isFlow : {FALSE}, name : {FlowOrderCreation}, step : RuleSteps]

RECURSIVE BuildFlows(_, _)
BuildFlows(items, acc) ==
  IF items = << >> THEN acc
  ELSE LET it == Head(items)
       IN IF it.isFlow
          THEN BuildFlows(Tail(items),
                 Append(acc, [id |-> Len(acc) + 1, name |-> it.name, steps |-> << >>]))
          ELSE IF acc = << >> THEN BuildFlows(Tail(items), acc)
          ELSE BuildFlows(Tail(items),
                 [acc EXCEPT ![Len(acc)].steps = Append(@, it.step)])

RuleFlowLists == {BuildFlows(items, << >>) : items \in SeqsUpTo(RuleItems, MaxRuleItems)}

\* one iteration of "for (const entity of inputs.entities)" in extractStateMachines
RulesEntity ==
  /\ stage = "rules" /\ pc = "machines" /\ ei <= Len(rulesIn.entities)
  /\ machines' = MachinesWith(machines, rulesIn.entities[ei], rulesIn.flows)
  /\ ei' = ei + 1
  /\ UNCHANGED <<stage, files, git, recorder, pc, trace, config, si, screenMap, currentUrl, actions, screens,
                 flowList, currentScreenId, flowSteps, flowStartTime, stepEvents,
                 flowEvents, entityMap, observed, rulesIn, output, result>>

\* return machines; extractRules() extracts the permission and the business
\* rules (the validation rules are not part of this model), writes rules.json
\* and returns success
RulesReturn ==
  /\ stage = "rules" /\ pc = "machines" /\ ei > Len(rulesIn.entities)
  /\ LET permissionRules == extractPermissionRules(rulesIn)
         businessRules == extractBusinessRules(rulesIn)
     IN /\ output' = [output EXCEPT !.machines = machines,
                                    !.permissionRules = permissionRules,
                                    !.businessRules = businessRules,
                                    !.written = TRUE]
        /\ result' = [returned |-> TRUE, success |-> TRUE,
                      stateMachinesFound |-> Len(machines),
                      permissionRulesFound |-> Len(permissionRules),
                      businessRulesFound |-> Len(businessRules)]
  /\ pc' = "done"
  /\ UNCHANGED <<stage, files, git, recorder, trace, config, si, ei, screenMap, currentUrl, actions, screens,
                 flowList, currentScreenId, flowSteps, flowStartTime, stepEvents,
                 flowEvents, entityMap, observed, rulesIn, machines>>

\* loadInputs reads the trace, the flows file and the entities file in turn
RulesLoad ==
  /\ stage = "rules" /\ pc = "load"
  /\ IF ReadThrows(files.trace) THEN Fail(ReadError(files.trace))
     ELSE IF ReadThrows(files.flows) THEN Fail(ReadError(files.flows))
     ELSE IF ReadThrows(files.entities) THEN Fail(ReadError(files.entities))
     ELSE pc' = "machines" /\ UNCHANGED <<output, result>>
  /\ UNCHANGED <<stage, files, git, recorder, trace, config, si, ei, screenMap, currentUrl, actions,
                 screens, flowList, currentScreenId, flowSteps, flowStartTime,
                 stepEvents, flowEvents, entityMap, observed, rulesIn, machines>>

RuleFiles == [trace : FileStates, flows : FileStates, entities : FileStates]

AllValid == [trace |-> "valid", flows |-> "valid", entities |-> "valid"]

\* the state at the entry of extractRules for the files and their contents
InitRulesOn(fs, ents, fls) ==
  /\ stage = "rules" /\ pc = "load"
  /\ files = fs
  /\ git = GitIdle /\ recorder = RecorderIdle
  /\ trace = EmptyTrace
  /\ config = [includeMetadata |-> TRUE]
  /\ si = 1 /\ ei = 1
  /\ screenMap = << >> /\ currentUrl = << >> /\ actions = << >> /\ screens = << >>
  /\ flowList = << >> /\ currentScreenId = << >> /\ flowSteps = << >>
  /\ flowStartTime = 0 /\ stepEvents = << >> /\ flowEvents = << >>
  /\ entityMap = << >> /\ observed = {}
  /\ rulesIn = [entities |-> ents, flows |-> fls]
  /\ machines = << >>
  /\ output = NoOutput /\ result = NoResult

\* unreadable files hold no entities and no flows
InitRules ==
  \/ \E ents \in RuleEntityLists, fls \in RuleFlowLists : InitRulesOn(AllValid, ents, fls)
  \/ \E fs \in RuleFiles \ {AllValid} : InitRulesOn(fs, << >>, << >>)

NextRules ==
  \/ RulesLoad
  \/ RulesEntity
  \/ RulesReturn

SpecRules == InitRules /\ [][NextRules]_vars

\* one entity and longer flows: the same step kind can be examined repeatedly
MaxRepeatItems == MaxRuleItems + 1

RepeatEntityLists == {<<RuleEntity(1, f)>> : f \in RuleFieldLists}

RepeatFlowLists ==
  {BuildFlows(items, << >>) : items \in SeqsUpTo(RuleItems, MaxRepeatItems)}

InitRulesRepeats ==
  \E ents \in RepeatEntityLists, fls \in RepeatFlowLists :
    InitRulesOn(AllValid, ents, fls)

SpecRulesRepeats == InitRulesRepeats /\ [][NextRules]_vars

(***************************************************************************)
(* Properties of the Rule Extractor                                        *)
(***************************************************************************)
HasStatusLikeField(entity) ==
  \E i \in 1..Len(entity.fields) :
    ToLowerCase(entity.fields[i].name) \in Range(StateFieldNames)

HasPostStep(flow) ==
  \E i \in 1..Len(flow.steps) :
    /\ flow.steps[i].type = "network"
    /\ StartsWith(flow.steps[i].operation, MethodPost \o <<" ">>)

HasCreateTransition(machine) ==
  \E i \in 1..Len(machine.transitions) :
    /\ machine.transitions[i].from = StDraft
    /\ machine.transitions[i].to = StActive
    /\ machine.transitions[i].trigger = CreateSuccess

\* C4: for an entity with a status-like field and a flow whose name contains
\* the entity's name and that has a POST network step at any position, the
\* entity's state machine has a draft -> active transition with trigger
\* create_success.
C4_PostImpliesCreateTransition ==
  (stage = "rules" /\ pc = "done") =>
    \A e \in 1..Len(rulesIn.entities), f \in 1..Len(rulesIn.flows) :
      (/\ HasStatusLikeField(rulesIn.entities[e])
       /\ Includes(rulesIn.flows[f].name, rulesIn.entities[e].name)
       /\ HasPostStep(rulesIn.flows[f]))
        => \A m \in 1..Len(output.machines) :
             output.machines[m].entity = rulesIn.entities[e].name
               => HasCreateTransition(output.machines[m])

\* C10: in every emitted state machine, initial is one of its states.
C10_InitialIsAState ==
  /\ \A m \in 1..Len(machines) : machines[m].initial \in Range(machines[m].states)
  /\ \A m \in 1..Len(output.machines) :
       output.machines[m].initial \in Range(output.machines[m].states)
  /\ (stage = "rules" /\ pc = "done") => output.machines = machines

C10_Witness ==
  /\ stage = "rules" /\ pc = "done"
  /\ \E m \in 1..Len(output.machines) :
       output.machines[m].initial # output.machines[m].states[1]
  /\ \E m \in 1..Len(output.machines) :
       output.machines[m].states = <<StDraft, StActive, StArchived>>

\* the positions of flow f's steps that extractTransitions examines and that
\* are network steps of the given method
ExaminedSteps(flow, method) ==
  {i \in 1..(Len(flow.steps) - 1) :
     /\ flow.steps[i].type = "network"
     /\ StartsWith(flow.steps[i].operation, method \o <<" ">>)}

TransitionsUnique(list) ==
  \A m \in 1..Len(list) :
    \A i, j \in 1..Len(list[m].transitions) :
      (/\ list[m].transitions[i].from = list[m].transitions[j].from
       /\ list[m].transitions[i].to = list[m].transitions[j].to) => i = j

\* C11: in every emitted state machine no two transitions share the same
\* (from, to) pair, however many flows and steps imply that transition.
C11_TransitionsUnique ==
  /\ TransitionsUnique(machines)
  /\ TransitionsUnique(output.machines)

\* a written machine with a draft -> active transition that two examined POST
\* steps of the entity's flows imply
C11_Witness ==
  /\ stage = "rules" /\ pc = "done"
  /\ \E m \in 1..Len(output.machines) :
       /\ HasCreateTransition(output.machines[m])
       /\ \E f \in 1..Len(rulesIn.flows) :
            /\ FlowInvolves(rulesIn.flows[f], output.machines[m].entity)
            /\ Cardinality(ExaminedSteps(rulesIn.flows[f], MethodPost)) >= 2

(***************************************************************************)
(* Properties of the Entity Resolver on nested paths, keys and types       *)
(***************************************************************************)
\* the last segment of the path is a parameter (:id or {id})
EndsInParameter(path) ==
  LET parts == Split(path, {"/"})
      last == parts[Len(parts)]
  IN last # << >> /\ last[1] \in {":", "{"}

\* the kind the classification table gives for one of the five methods
TableKind(method, path) ==
  IF method = MethodGet THEN (IF EndsInParameter(path) THEN "read" ELSE "list")
  ELSE IF method = MethodPost THEN "create"
  ELSE IF method \in {MethodPut, MethodPatch} THEN "update"
  ELSE "delete"

\* C12: every recorded operation is classified from its method and normalized
\* path: GET is list unless the path ends in a parameter segment (nested
\* collections such as /users/:id/posts are list), when it is read; POST is
\* create, PUT and PATCH are update, DELETE is delete.
C12_ClassificationTable ==
  \A e \in 1..Len(output.entities) :
    \A o \in 1..Len(output.entities[e].operations) :
      LET op == output.entities[e].operations[o]
      IN op.method \in {MethodGet, MethodPost, MethodPut, MethodPatch, MethodDelete}
           => op.kind = TableKind(op.method, op.path)

\* the observed events that the entities loop files under the entity's name
EventsOf(entityName) ==
  {e \in NetworkObserved : extractEntityName(normalizeUrlPath(e.url)) = entityName}

\* the [key, value] entries of the request and response shapes of those events
EntriesOf(entityName) ==
  UNION {Range(e.requestShape) \cup Range(e.responseShape) : e \in EventsOf(entityName)}

KeysOf(entityName) == {entry.key : entry \in EntriesOf(entityName)}

\* C15: an entity's metadata.primaryKey is id when a key id was observed in
\* any request or response shape of the entity, otherwise _id when a key _id
\* was observed, otherwise undefined.
C15_PrimaryKeyFromObservedKeys ==
  (stage = "entities" /\ pc = "done") =>
    \A e \in 1..Len(output.entities) :
      output.entities[e].metadata.primaryKey
        = IF KeyId \in KeysOf(output.entities[e].name) THEN KeyId
          ELSE IF KeyUnderscoreId \in KeysOf(output.entities[e].name)
          THEN KeyUnderscoreId
          ELSE << >>

\* the types observed for the key of an entity, over all shapes read so far
ObservedTypes(entityName, key) ==
  {FieldTypeOf(entry.value) : entry \in {x \in EntriesOf(entityName) : x.key = key}}

\* the recorded type of a field against the observations of its key
TypeWidened(entityName, field) ==
  LET obs == ObservedTypes(entityName, field.name)
  IN /\ field.type \in obs
     /\ field.type = "unknown" => obs = {"unknown"}

\* C16: over any sequence of observations of a field its recorded type is
\* never narrowed: it is unknown only while every observation of the field was
\* unknown (so it never goes back from a concrete type to unknown), and with
\* conflicting concrete types it is one of the observed concrete types.
C16_TypeNeverNarrowed ==
  /\ \A e \in 1..Len(entityMap) :
       \A f \in 1..Len(entityMap[e].value.fields) :
         TypeWidened(entityMap[e].value.name, entityMap[e].value.fields[f].value)
  /\ \A e \in 1..Len(output.entities) :
       \A f \in 1..Len(output.entities[e].fields) :
         TypeWidened(output.entities[e].name, output.entities[e].fields[f])

\* a written field observed as unknown and as two conflicting concrete types
C16_Witness ==
  /\ stage = "entities" /\ pc = "done"
  /\ \E e \in 1..Len(output.entities) :
       \E f \in 1..Len(output.entities[e].fields) :
         /\ {"unknown", "number", "string"}
              \subseteq ObservedTypes(output.entities[e].name,
                                      output.entities[e].fields[f].name)
         /\ output.entities[e].fields[f].type \in {"number", "string"}

\* the observed network events of an entity whose url normalizeUrlPath parses
NormalizableOf(entityName) == {e \in EventsOf(entityName) : ~BaseUrlThrows(e.url)}

\* C20: in the entities stage a network event whose url cannot be normalized
\* is skipped: it contributes no entity, no field and no operation to the
\* output, and the stage still succeeds on the rest of the trace.
C20_UnnormalizableUrlIsSkipped ==
  (stage = "entities" /\ pc = "done") =>
    /\ result.success
    /\ \A k \in 1..Len(output.entities) :
         LET entity == output.entities[k]
             events == NormalizableOf(entity.name)
         IN /\ events # {}
            /\ \A o \in 1..Len(entity.operations) :
                 \E e \in events :
                   /\ e.method = entity.operations[o].method
                   /\ normalizeUrlPath(e.url) = entity.operations[o].path
            /\ \A f \in 1..Len(entity.fields) :
                 \E e \in events :
                   \E entry \in Range(e.requestShape) \cup Range(e.responseShape) :
                     entry.key = entity.fields[f].name

(***************************************************************************)
(* Properties of the Rule Extractor: machines and business rules           *)
(***************************************************************************)
\* the positions in list of the records filed under the entity's name
IndicesFor(list, entityName) == {m \in 1..Len(list) : list[m].entity = entityName}

\* C13: the Rule Extractor emits exactly one state machine for each input
\* entity that has a field named status, state, phase or stage, and none for
\* any other entity, whatever the content of the field's enum.
C13_OneMachinePerStatusEntity ==
  (stage = "rules" /\ pc = "done") =>
    \A e \in 1..Len(rulesIn.entities) :
      Cardinality(IndicesFor(output.machines, rulesIn.entities[e].name))
        = IF HasStatusLikeField(rulesIn.entities[e]) THEN 1 ELSE 0

\* C14: every entity with a status-like field (status, state, phase or stage),
\* and therefore every entity for which a state machine is emitted, also
\* receives a workflow_progression business rule.
C14_WorkflowRuleForStatusEntities ==
  (stage = "rules" /\ pc = "done") =>
    /\ \A e \in 1..Len(rulesIn.entities) :
         HasStatusLikeField(rulesIn.entities[e])
           => \E r \in IndicesFor(output.businessRules, rulesIn.entities[e].name) :
                output.businessRules[r].name = "workflow_progression"
    /\ \A m \in 1..Len(output.machines) :
         \E r \in IndicesFor(output.businessRules, output.machines[m].entity) :
           output.businessRules[r].name = "workflow_progression"

(***************************************************************************)
(* The three stage functions on missing, malformed and readable files      *)
(***************************************************************************)
MaxIoItems == 1

IoTraces == {BuildTrace(RootUrl, items) : items \in SeqsUpTo(FlowItems, MaxIoItems)}

IoFlowLists == {BuildFlows(items, << >>) : items \in SeqsUpTo(RuleItems, MaxIoItems)}

InitStageFiles ==
  \/ \E fs \in TraceFiles :
       \E tr \in (IF fs.trace = "valid" THEN IoTraces ELSE {EmptyTrace}) :
         InitFlowsOn(fs, tr)
  \/ InitEntities
  \/ \E ents \in RepeatEntityLists, fls \in IoFlowLists : InitRulesOn(AllValid, ents, fls)
  \/ \E fs \in RuleFiles \ {AllValid} : InitRulesOn(fs, << >>, << >>)

NextStageFiles ==
  \/ NextFlows
  \/ NextEntitiesEdge
  \/ NextRules

SpecStageFiles == InitStageFiles /\ [][NextStageFiles]_vars

\* the files the running stage reads, in the order it reads them
InputFiles ==
  IF stage = "rules" THEN <<files.trace, files.flows, files.entities>>
  ELSE <<files.trace>>

Unreadable == {i \in 1..Len(InputFiles) : InputFiles[i] # "valid"}

\* the counts of a result record are all zero
CountsZero(r) ==
  IF stage = "flows" THEN r.screensFound = 0 /\ r.flowsFound = 0
  ELSE IF stage = "entities" THEN r.entitiesFound = 0 /\ r.operationsFound = 0
  ELSE /\ r.stateMachinesFound = 0 /\ r.validationRulesFound = 0
       /\ r.permissionRulesFound = 0 /\ r.businessRulesFound = 0

\* C17: each stage function (flows, entities, extractRules) never rejects or
\* throws: when its input file is missing or is not valid JSON it returns a
\* result with success = false, the underlying error message in errors and
\* all counts zero, and it has written no output file.
C17_UnreadableInputIsReported ==
  (Unreadable # {} /\ pc # "load") =>
    /\ pc = "failed"
    /\ result.returned /\ ~result.success
    /\ result.errors = <<ReadError(InputFiles[Min(Unreadable)])>>
    /\ CountsZero(result)
    /\ output = NoOutput

\* extractRules has returned after its entities file turned out not to be JSON
C17_Witness ==
  /\ stage = "rules" /\ pc = "failed" /\ result.returned
  /\ files = [AllValid EXCEPT !.entities = "invalid"]

(***************************************************************************)
(* The flows stage on traces with URLs that new URL() rejects              *)
(***************************************************************************)
UrlTemplates ==
  {ClickEvent, NetworkEvent(MethodPost, UrlApiWidgets), NetworkEvent(MethodPost, UrlBad),
   NavigateEvent(UrlWorkspaces), NavigateEvent(UrlBad)}

UrlItems == [tpl : UrlTemplates, gap : {ShortGap}]
              \cup {[tpl |-> SessionBreak, gap |-> ShortGap]}

UrlTraces ==
  {BuildTrace(root, items) : root \in {RootUrl, UrlBad},
                             items \in SeqsUpTo(UrlItems, MaxItems)}

InitFlowsUrls == \E tr \in UrlTraces : InitFlowsOn(AllValid, tr)

SpecFlowsUrls == InitFlowsUrls /\ [][NextFlows]_vars

FlowsStageOver == stage = "flows" /\ pc \in {"done", "failed"}

\* the [session, event] positions of the network events whose url does not parse
BadNetworkEvents ==
  {se \in UNION {{<<x, i>> : i \in 1..Len(Sessions[x].events)} : x \in 1..Len(Sessions)} :
     /\ Sessions[se[1]].events[se[2]].type = "network"
     /\ ~UrlParses(Sessions[se[1]].events[se[2]].url)}

\* ids of the clicks made while the current URL of the session did not parse
ClickIdsOnBadUrl ==
  UNION {{Sessions[x].events[i].id : i \in
            {j \in 1..Len(Sessions[x].events) :
               /\ Sessions[x].events[j].type = "click"
               /\ ~UrlParses(UrlAfter(Sessions[x].events, j))}}
         : x \in 1..Len(Sessions)}

\* the root URL or the toUrl of a navigate event does not parse
BadPageUrl ==
  \/ ~UrlParses(trace.meta.url)
  \/ \E x \in 1..Len(Sessions) : \E i \in 1..Len(Sessions[x].events) :
       /\ Sessions[x].events[i].type = "navigate"
       /\ Sessions[x].events[i].toUrl # << >>
       /\ ~UrlParses(Sessions[x].events[i].toUrl)

\* C18: when the trace root URL or the toUrl of a navigate event cannot be
\* parsed as a URL, the flows stage does not fail: it returns success = true
\* and the events under that URL are attributed to a screen with the reserved
\* id screen-unknown.
C18_BadPageUrlGivesUnknownScreen ==
  (FlowsStageOver /\ BadPageUrl /\ BadNetworkEvents = {}) =>
    /\ result.success
    /\ ClickIdsOnBadUrl # {} =>
         \E k \in 1..Len(output.screens) :
           /\ output.screens[k].id = ScreenUnknown
           /\ ClickIdsOnBadUrl \subseteq Range(output.screens[k].primaryActions)

\* C19: in the flows stage a network event whose url cannot be parsed affects
\* only that record: the stage still returns success = true and emits every
\* screen and flow implied by the other events of the trace (the screens that
\* extractScreens, which reads no network url, has collected, and the flows
\* assembled around the record).
C19_BadNetworkUrlIsSkipped ==
  (FlowsStageOver /\ BadNetworkEvents # {} /\ ~BadPageUrl) =>
    /\ result.success
    /\ output.written
    /\ output.screens = MapValues(screenMap)
    /\ output.flows = flowList

(***************************************************************************)
(* figma-bridge: runGitWorkflow                                            *)
(***************************************************************************)
MaxBehind == 2

\* the pipeline variables while another component runs
PipelineIdle(component) ==
  /\ stage = component /\ pc = "idle"
  /\ files = AllValid /\ trace = EmptyTrace /\ config = [includeMetadata |-> TRUE]
  /\ si = 1 /\ ei = 1
  /\ screenMap = << >> /\ currentUrl = << >> /\ actions = << >> /\ screens = << >>
  /\ flowList = << >> /\ currentScreenId = << >> /\ flowSteps = << >>
  /\ flowStartTime = 0 /\ stepEvents = << >> /\ flowEvents = << >>
  /\ entityMap = << >> /\ observed = {} /\ rulesIn = [entities |-> << >>, flows |-> << >>]
  /\ machines = << >>
  /\ output = NoOutput /\ result = NoResult

PipelineUnchanged ==
  UNCHANGED <<stage, files, pc, trace, config, si, ei, screenMap, currentUrl, actions,
              screens, flowList, currentScreenId, flowSteps, flowStartTime, stepEvents,
              flowEvents, entityMap, observed, rulesIn, machines, output, result>>

\* an option of runGitWorkflow is left out ("unset") or given
OptionValues == {"unset", "true", "false"}

\* const { checkStatus = true, pull = true, requireClean = false } = options
checkStatus == git.options.checkStatus # "false"
pull == git.options.pull # "false"

\* requireClean, flawed: the option is never honoured
requireCleanIgnored == FALSE

requireClean == git.options.requireClean = "true"

MsgNotRepo == "Not a git repository"
MsgUncommitted ==
  "Working directory has uncommitted changes. Commit or stash them first."
MsgPassed == "Git checks passed"
MsgConflicts == "Pull resulted in conflicts. Please resolve manually."

\* what `git pull --rebase` does: exec rejects, or prints output in which the
\* phrases gitPull looks for do or do not occur
PullPhrases == {"Already up to date", "Fast-forward", "CONFLICT"}
PullRuns == [throws : BOOLEAN, output : SUBSET PullPhrases]

\* gitPull, flawed: a conflict in the output is not looked for
gitPullIgnoringConflicts(run) ==
  IF run.throws THEN [success |-> FALSE, message |-> "Pull failed"]
  ELSE [success |-> TRUE, message |-> "output"]

\* gitPull(cwd)
gitPull(run) ==
  IF run.throws THEN [success |-> FALSE, message |-> "Pull failed"]
  ELSE IF "Already up to date" \in run.output \/ "Fast-forward" \in run.output
  THEN [success |-> TRUE, message |-> "output"]
  ELSE IF "CONFLICT" \in run.output
  THEN [success |-> FALSE, message |-> MsgConflicts]
  ELSE [success |-> TRUE, message |-> "output"]

\* return { proceed, message }
GitReturn(g, proceed, message) ==
  [g EXCEPT !.pc = "done",
            !.result = [returned |-> TRUE, proceed |-> proceed, message |-> message]]

\* catch (error) { return { proceed: false, message: error.message } } after
\* the named command threw
GitCatch(g, command, message) ==
  [GitReturn(g, FALSE, message) EXCEPT !.failed = command]

\* the code after the "Check status" block: the pull block or the final return
GitAfterStatus(g) ==
  IF pull THEN [g EXCEPT !.pc = "fetch"] ELSE GitReturn(g, TRUE, MsgPassed)

\* const isRepo = await isGitRepo(cwd)
GitIsRepo ==
  /\ stage = "git" /\ git.pc = "start"
  /\ LET g == [git EXCEPT !.log = Append(@, "rev-parse")]
     IN git' = IF ~git.isRepo THEN GitReturn(g, TRUE, MsgNotRepo)
               ELSE [g EXCEPT !.pc = "branch"]
  /\ UNCHANGED recorder /\ PipelineUnchanged

\* const branch = await getCurrentBranch(cwd): the command succeeds or throws
GitBranch ==
  /\ stage = "git" /\ git.pc = "branch"
  /\ \E ok \in BOOLEAN :
       LET g == [git EXCEPT !.log = Append(@, "branch")]
       IN git' = IF ~ok THEN GitCatch(g, "branch", "Failed to get current branch")
                 ELSE IF checkStatus THEN [g EXCEPT !.pc = "status"]
                 ELSE GitAfterStatus(g)
  /\ UNCHANGED recorder /\ PipelineUnchanged

\* if (checkStatus) { const status = await getGitStatus(cwd); ... }
GitCheckStatus ==
  /\ stage = "git" /\ git.pc = "status"
  /\ \E ok \in BOOLEAN :
       LET g == [git EXCEPT !.log = Append(@, "status")]
       IN git' = IF ~ok THEN GitCatch(g, "status", "Failed to get git status")
                 ELSE IF requireClean /\ ~git.clean
                 THEN GitReturn(g, FALSE, MsgUncommitted)
                 ELSE GitAfterStatus(g)
  /\ UNCHANGED recorder /\ PipelineUnchanged

\* await gitFetch(cwd)
GitFetch ==
  /\ stage = "git" /\ git.pc = "fetch"
  /\ \E ok \in BOOLEAN :
       LET g == [git EXCEPT !.log = Append(@, "fetch")]
       IN git' = IF ~ok THEN GitCatch(g, "fetch", "fetch failed")
                 ELSE [g EXCEPT !.pc = "status-after-fetch"]
  /\ UNCHANGED recorder /\ PipelineUnchanged

\* const status = await getGitStatus(cwd); if (status.behind > 0) ...
GitStatusAfterFetch ==
  /\ stage = "git" /\ git.pc = "status-after-fetch"
  /\ \E ok \in BOOLEAN, behind \in 0..MaxBehind :
       LET g == [git EXCEPT !.log = Append(@, "status")]
       IN git' = IF ~ok THEN GitCatch(g, "status", "Failed to get git status")
                 ELSE IF behind > 0
                 THEN [g EXCEPT !.pc = "pull", !.behind = behind, !.behindRead = TRUE]
                 ELSE GitReturn([g EXCEPT !.behind = behind, !.behindRead = TRUE],
                                TRUE, MsgPassed)
  /\ UNCHANGED recorder /\ PipelineUnchanged

\* const pullResult = await gitPull(cwd)
GitPull ==
  /\ stage = "git" /\ git.pc = "pull"
  /\ \E run \in PullRuns :
       LET pullResult == gitPull(run)
           g == [git EXCEPT !.log = Append(@, "pull"), !.pullRun = run,
                            !.pulled = TRUE]
       IN git' = IF pullResult.success THEN GitReturn(g, TRUE, MsgPassed)
                 ELSE GitReturn(g, FALSE, pullResult.message)
  /\ UNCHANGED recorder /\ PipelineUnchanged

GitOptionSets ==
  [checkStatus : OptionValues, pull : OptionValues, requireClean : OptionValues]

InitGit ==
  /\ PipelineIdle("git") /\ recorder = RecorderIdle
  /\ \E opts \in GitOptionSets, isRepo \in BOOLEAN, clean \in BOOLEAN :
       git = [pc |-> "start", options |-> opts, isRepo |-> isRepo, clean |-> clean,
              behind |-> 0, behindRead |-> FALSE, log |-> << >>, failed |-> "none",
              pullRun |-> [throws |-> FALSE, output |-> {}], pulled |-> FALSE,
              result |-> [returned |-> FALSE, proceed |-> FALSE, message |-> ""]]

NextGit ==
  \/ GitIsRepo
  \/ GitBranch
  \/ GitCheckStatus
  \/ GitFetch
  \/ GitStatusAfterFetch
  \/ GitPull

SpecGit == InitGit /\ [][NextGit]_vars

(***************************************************************************)
(* Properties of runGitWorkflow                                            *)
(***************************************************************************)
\* called with checkStatus and requireClean both true on a repository whose
\* work tree is not clean
DirtyAndCleanRequired ==
  /\ stage = "git"
  /\ git.options.checkStatus = "true" /\ git.options.requireClean = "true"
  /\ git.isRepo /\ ~git.clean

NoFetchNoPull == "fetch" \notin Range(git.log) /\ "pull" \notin Range(git.log)

\* C21 as stated: runGitWorkflow called with checkStatus and requireClean both
\* true on a repository whose status is not clean returns proceed = false
\* with the message about uncommitted changes, before any fetch or pull
\* command is issued, whatever the pull option.
C21_Original ==
  DirtyAndCleanRequired =>
    /\ NoFetchNoPull
    /\ git.pc = "done" =>
         ~git.result.proceed /\ git.result.message = MsgUncommitted

\* C21: runGitWorkflow called with checkStatus and requireClean both true on a
\* repository whose status is not clean returns proceed = false before any
\* fetch or pull command is issued, whatever the pull option; the message is
\* the one about uncommitted changes when the branch and status commands
\* succeeded, and the message of the failed command otherwise.
C21_DirtyTreeStopsBeforeFetch ==
  DirtyAndCleanRequired =>
    /\ NoFetchNoPull
    /\ git.pc = "done" =>
         /\ ~git.result.proceed
         /\ git.failed = "none" => git.result.message = MsgUncommitted
         /\ git.failed = "branch" => git.result.message = "Failed to get current branch"
         /\ git.failed = "status" => git.result.message = "Failed to get git status"

C21_Witness ==
  /\ DirtyAndCleanRequired /\ git.options.pull = "true"
  /\ git.pc = "done" /\ git.result.returned
  /\ git.result.message = MsgUncommitted
  /\ git.log = <<"rev-parse", "branch", "status">>

\* the pull command threw, or its output reports a conflict and none of the
\* success phrases
PullFailed == git.pullRun.throws
PullConflict ==
  /\ ~git.pullRun.throws
  /\ "CONFLICT" \in git.pullRun.output
  /\ git.pullRun.output \cap {"Already up to date", "Fast-forward"} = {}

C26_TransitionsStayInStates ==
  \A m \in 1..Len(output.machines) :
    \A t \in 1..Len(output.machines[m].transitions) :
      /\ ArrIncludes(output.machines[m].states, output.machines[m].transitions[t].from)
      /\ ArrIncludes(output.machines[m].states, output.machines[m].transitions[t].to)

\* C28: the permission rules contain at most one rule for each
\* (entity, action) pair, however many flows mention the entity together
\* with "approve" or "archive".
C28_OnePermissionPerEntityAction ==
  \A i, j \in 1..Len(output.permissionRules) :
    (/\ output.permissionRules[i].entity = output.permissionRules[j].entity
     /\ output.permissionRules[i].action = output.permissionRules[j].action) => i = j

\* C27: for every trace and config (minStepsForFlow = 1 and sessions whose
\* first event is a navigate included) the fromScreen and toScreen of each
\* emitted flow are ids of screens in the screens output, so that no flow
\* name falls back to "Unknown".
C27_FlowScreensAreListed ==
  (stage = "flows" /\ pc = "done") =>
    \A k \in 1..Len(output.flows) :
      /\ \E i \in 1..Len(output.screens) :
           output.screens[i].id = output.flows[k].fromScreen
      /\ \E i \in 1..Len(output.screens) :
           output.screens[i].id = output.flows[k].toScreen
      /\ ~StartsWith(output.flows[k].name, UnknownLabel \o Arrow)
      /\ ~EndsWith(output.flows[k].name, Arrow \o UnknownLabel)

\* C29: when the entities stage succeeds, operationsFound equals the total
\* number of operations over all written entities and entitiesFound equals
\* the number of entities, for every config, includeMetadata = false
\* included.
C29_CountsMatchWrittenEntities ==
  (stage = "entities" /\ pc = "done" /\ result.success) =>
    /\ result.entitiesFound = Len(output.entities)
    /\ result.operationsFound = TotalOperations(output.entities)

(***************************************************************************)
(* Trace recorder: setupNetworkListeners.  The page issues requests and    *)
(* the responses come back in any order; each handler is one step, and the *)
(* response handler is suspended once, at `await response.json()`.         *)
(***************************************************************************)
MaxRequests == 2

UrlLogo == HttpScheme \o <<"h", "/", "l", "o", "g", "o", ".", "P", "N", "G">>
PatternUsers == <<"/", "u", "s", "e", "r", "s">>

AssetExtensions ==
  {<<"p", "n", "g">>, <<"j", "p", "g">>, <<"j", "p", "e", "g">>, <<"g", "i", "f">>,
   <<"s", "v", "g">>, <<"c", "s", "s">>, <<"w", "o", "f", "f">>,
   <<"w", "o", "f", "f", "2">>, <<"t", "t", "f">>}

\* url.match(/\.(png|jpg|jpeg|gif|svg|css|woff2?|ttf)$/i)
IsAssetUrl(url) ==
  \E ext \in AssetExtensions : EndsWith(ToLowerCase(url), <<".">> \o ext)

\* shouldIgnoreUrl for patterns that are plain strings: url.includes(pattern)
shouldIgnoreUrl(url, ignorePatterns) ==
  \E k \in 1..Len(ignorePatterns) : Includes(url, ignorePatterns[k])

\* String(n).padStart(width, '0')
RECURSIVE PadStart(_, _)
PadStart(str, width) ==
  IF Len(str) >= width THEN str ELSE PadStart(<<"0">> \o str, width)

\* `${type}-${String(eventCounter++).padStart(3, '0')}`
generateEventId(type, eventCounter) ==
  type \o <<"-">> \o PadStart(NumberToString(eventCounter), 3)

ShapedMethods == {MethodPost, MethodPut, MethodPatch}

\* the requests a page issues: method, url and the shape of the JSON body
PageRequests ==
  {[method |-> MethodGet, url |-> UrlApiWidgets, body |-> << >>],
   [method |-> MethodPost, url |-> UrlApiWidgets, body |-> WidgetRequest],
   [method |-> MethodGet, url |-> UrlApiUsers, body |-> << >>],
   [method |-> MethodGet, url |-> UrlLogo, body |-> << >>]}

ErrorShape == <<[key |-> KeyName, value |-> TypeName("string")]>>

\* the responses a server gives: status, JSON content type, shape of the body
PageResponses ==
  {[status |-> 200, json |-> TRUE, shape |-> WidgetResponse],
   [status |-> 404, json |-> TRUE, shape |-> ErrorShape],
   [status |-> 204, json |-> FALSE, shape |-> << >>]}

\* page.on('request'): request n of the page
RecRequest ==
  /\ stage = "recorder" /\ recorder.requests < MaxRequests
  /\ \E request \in PageRequests :
       LET n == recorder.requests + 1
           ignored == \/ shouldIgnoreUrl(request.url, recorder.ignoreUrls)
                      \/ IsAssetUrl(request.url)
           event == [id |-> generateEventId(<<"n", "e", "t">>, recorder.eventCounter),
                     type |-> "network", method |-> request.method, url |-> request.url,
                     requestShape |-> IF request.method \in ShapedMethods
                                      THEN request.body ELSE << >>,
                     status |-> 0, responseShape |-> << >>,
                     \* not in the code: the request the event stands for and
                     \* the requests whose response filled status and shape
                     request |-> n, statusOf |-> 0, shapeOf |-> 0]
       IN recorder' = [recorder EXCEPT
                         !.requests = n,
                         !.inFlight = @ \cup {[n |-> n, url |-> request.url]},
                         !.events = IF ignored THEN @ ELSE Append(@, event),
                         !.eventCounter = IF ignored THEN @ ELSE @ + 1]
  /\ UNCHANGED git /\ PipelineUnchanged

\* events.find(e => e.type === 'network' && e.url === url && !e.status)
FindRequestEvent(events, url) ==
  LET found == {i \in 1..Len(events) : /\ events[i].type = "network"
                                       /\ events[i].url = url
                                       /\ events[i].status = 0}
  IN IF found = {} THEN 0 ELSE Min(found)

\* page.on('response') up to `await response.json()`: the response to a
\* request in flight arrives
RecResponse ==
  /\ stage = "recorder"
  /\ \E r \in recorder.inFlight, response \in PageResponses :
       LET requestEvent == FindRequestEvent(recorder.events, r.url)
       IN recorder' =
            IF requestEvent = 0
            THEN [recorder EXCEPT !.inFlight = @ \ {r}]
            ELSE [recorder EXCEPT
                    !.inFlight = @ \ {r},
                    !.events[requestEvent].status = response.status,
                    !.events[requestEvent].statusOf = r.n,
                    !.parsing = IF response.json
                                THEN @ \cup {[event |-> requestEvent, n |-> r.n,
                                              shape |-> response.shape]}
                                ELSE @]
  /\ UNCHANGED git /\ PipelineUnchanged

\* the rest of page.on('response'): response.json() resolves and the shape is
\* stored, or it rejects and the catch block ignores the error
RecJson ==
  /\ stage = "recorder"
  /\ \E p \in recorder.parsing, parsed \in BOOLEAN :
       recorder' = IF parsed
                   THEN [recorder EXCEPT !.parsing = @ \ {p},
                                         !.events[p.event].responseShape = p.shape,
                                         !.events[p.event].shapeOf = p.n]
                   ELSE [recorder EXCEPT !.parsing = @ \ {p}]
  /\ UNCHANGED git /\ PipelineUnchanged

InitRecorder ==
  /\ PipelineIdle("recorder") /\ git = GitIdle
  /\ \E ignoreUrls \in {<< >>, <<PatternUsers>>} :
       recorder = [ignoreUrls |-> ignoreUrls, eventCounter |-> 0, events |-> << >>,
                   requests |-> 0, inFlight |-> {}, parsing |-> {}]

NextRecorder ==
  \/ RecRequest
  \/ RecResponse
  \/ RecJson

SpecRecorder == InitRecorder /\ [][NextRecorder]_vars

\* C30: the trace recorder attaches the status and the responseShape of each
\* response to the network event of the request that produced it, also when
\* several requests to the same URL are in flight and their responses arrive
\* out of order.
C30_ResponseGoesToItsRequest ==
  stage = "recorder" =>
    \A i \in 1..Len(recorder.events) :
      /\ recorder.events[i].statusOf \in {0, recorder.events[i].request}
      /\ recorder.events[i].shapeOf \in {0, recorder.events[i].request}

====
